---- MODULE Spec2Model ----
(***************************************************************************)
(* Endpoint-health scheduler of monitoring-tool/backend:                   *)
(*   services/monitor_service.go   Job Registry, Scheduler Loop, Probe     *)
(*                                 Executor, limiter, Result Sink          *)
(*   services/websocket_service.go Broadcast Hub and observer pumps        *)
(*   handlers/api_handlers.go      create / delete request handlers        *)
(*   handlers/websocket_handlers.go upgrade handler                        *)
(*                                                                         *)
(* Every goroutine is a process; every channel operation, mutex section    *)
(* and storage call is one atomic step.  Unbuffered channels (Register,    *)
(* Unregister) are sets of senders parked on the channel; buffered         *)
(* channels are sequences with a capacity.                                 *)
(***************************************************************************)
EXTENDS Integers, Sequences, FiniteSets, TLC

----------------------------------------------------------------------------
(* Bounds of the model.                                                    *)

\* monitor identities (ObjectIDs) that may ever be inserted
NumMonitors == 2
\* scheduler goroutines startMonitorJob may spawn in one behaviour
MaxJobs == 2
\* timer ticks the tickers may deliver in one behaviour
MaxTicks == 1
\* observer connections HandleWebSocket may accept in one behaviour
NumClients == 2
\* capacity of MonitorService.semaphore (maxConcurrent; main.go passes 10)
MaxConcurrent == 1
\* capacity of WebSocketHub.Broadcast (256 in NewWebSocketHub)
BroadcastCap == 1
\* capacity of WebSocketClient.Send (256 in NewWebSocketClient)
SendCap == 1
\* capacity of both queues where the order of queued events is followed
OrderCap == 2
\* samples a pre-existing metric log may hold (uptime specification)
MaxUp == 8
MaxDown == 2
\* documents a failing cursor may leave unread (uptime specification)
MaxCut == 2
\* create requests whose handler is followed step by step (creation
\* specification), and URLs they may name
MaxRequests == 2
\* Metrics in the store when metrics are requested, and the row limit of the
\* metrics query (SetLimit(1000) in the source, scaled to the store)
MaxLog == 4
MaxRows == 2
NumUrls == 2

\* length of the uptime window in hours
UptimeWindowHours == 24
\* defaults of CreateMonitorRequest.Validate, in seconds
DefaultInterval == 30
DefaultTimeout == 10

MonitorIds == 1..NumMonitors
JobIds == 1..MaxJobs
ClientIds == 1..NumClients

RequestIds == 1..MaxRequests
Urls == 1..NumUrls

NoJob == 0
NoMonitor == [exists |-> FALSE, is_active |-> FALSE, current_status |-> "unknown",
              url |-> 0, interval |-> 0, timeout |-> 0,
              uptime_percentage |-> <<0, 1>>]

VARIABLES
    \* ---- storage collaborator ------------------------------------------
    monitors,      \* monitors collection: id -> document (NoMonitor if absent)
    metrics,       \* metrics collection: the append-only log
    now,           \* wall clock, in hours
    nextId,        \* next ObjectID InsertOne hands out
    \* ---- MonitorService ------------------------------------------------
    activeJobs,    \* ms.activeJobs: id -> job whose stop channel is stored
    semaphore,     \* number of tokens in ms.semaphore
    maxConcurrent, \* capacity of ms.semaphore (NewMonitorService's argument)
    nextJob,       \* next scheduler goroutine to be spawned
    jobMon,        \* job -> id of the monitor snapshot it was started with
    jobInterval,   \* job -> Interval of that snapshot, in seconds
    pc,            \* job -> position of the goroutine
    stopClosed,    \* job -> its stopChan has been closed
    tickerC,       \* job -> a tick is buffered in ticker.C
    ticks,         \* ticks delivered so far
    res,           \* job -> outcome of the probe in progress
    upt,           \* job -> uptime computed for the probe in progress
    ins,           \* job -> position in the log of the Metric the probe in
                   \*        progress inserted (InsertedID), 0 if none
    \* ---- request handlers and startup ----------------------------------
    scanPc,        \* StartMonitoring: "load", "iterate", "done", "failed"
    scanTodo,      \* StartMonitoring: monitors left to range over
    createPending, \* CreateMonitor handlers between insert and StartMonitorJob
    creq,          \* create request -> its handler: position, Monitor built,
                   \*                   id inserted, status of the response
    delPc,         \* id -> DeleteMonitor call: "idle" or "delete"
    deletedOK,     \* id -> a DeleteMonitor call for it has returned nil
    delErr,        \* id -> what the DeleteMonitor calls for it have returned
    getm,          \* the last answer of the GetMetrics handler
    urlIndex,      \* the unique index on monitors.url exists
    broadcastCap,  \* capacity of hub.Broadcast (NewWebSocketHub)
    sendCap,       \* capacity of each client.Send (NewWebSocketClient)
    \* ---- WebSocketHub and its clients ----------------------------------
    Broadcast,     \* hub.Broadcast, buffered channel
    Clients,       \* hub.Clients, the observer set
    hpc,           \* hub goroutine: "select", "welcome", "broadcast"
    hcur,          \* client of the Register case in progress
    hmsg,          \* message of the Broadcast case in progress
    btodo,         \* clients the range loop of the Broadcast case has not reached
    Send,          \* client -> client.Send, buffered channel
    closedBy,      \* client -> who has closed client.Send: "evict", "unregister"
    connClosed,    \* client -> client.Conn has been closed
    rpc,           \* client -> upgrade handler, then ReadPump position
    wpc,           \* client -> WritePump position
    panicked       \* a goroutine panicked: the process is gone

schedVars == <<monitors, metrics, now, maxConcurrent, nextId, activeJobs, semaphore, nextJob,
               jobMon, jobInterval, pc, stopClosed, tickerC, ticks, res, upt, ins, scanPc,
               scanTodo, createPending, creq, delPc, deletedOK, delErr, getm, urlIndex, broadcastCap, sendCap>>

hubVars == <<Clients, hpc, hcur, hmsg, btodo, Send, closedBy, connClosed, rpc,
             wpc, panicked>>

vars == <<schedVars, Broadcast, hubVars>>

\* no goroutine has panicked: the process is alive
Running == ~panicked

----------------------------------------------------------------------------
(* Storage collaborator and pure helpers.                                  *)

\* CreateMonitorRequest.Validate: a zero interval or timeout gets its default
Validate(req) ==
    [url |-> req.url,
     interval |-> IF req.interval = 0 THEN DefaultInterval ELSE req.interval,
     timeout |-> IF req.timeout = 0 THEN DefaultTimeout ELSE req.timeout]

\* ToMonitor: UptimePercentage: 100.0
CreationUptimePercentage == 100

\* document CreateMonitorRequest.ToMonitor builds (IsActive true, unknown
\* status, uptime 100)
ToMonitor(req) ==
    [exists |-> TRUE, is_active |-> TRUE, current_status |-> "unknown",
     url |-> Validate(req).url, interval |-> Validate(req).interval,
     timeout |-> Validate(req).timeout,
     uptime_percentage |-> <<CreationUptimePercentage, 1>>]

\* a request that names URL u and leaves interval and timeout out
DefaultRequest(u) == [url |-> u, interval |-> 0, timeout |-> 0]

\* what a target does with one request: no response (code 0) or an HTTP status
TransportError == 0
\* http.NewRequest fails: no request is sent
BuildError == -1
Responses == {BuildError, TransportError, 200, 399, 400, 500}
\* the targets of the scheduler and hub specifications refuse or answer 200,
\* and there the cursor of the uptime query is read to its end
Targets == {TransportError, 200}

\* classification that takes a client error (4xx) for "up"
ClassifyServerErrors(resp) ==
    IF resp \in {BuildError, TransportError}
        THEN [status |-> "down", status_code |-> 0, error |-> TRUE]
        ELSE [status |-> IF resp >= 500 THEN "down" ELSE "up",
              status_code |-> resp, error |-> FALSE]

\* checkEndpoint: the arguments it hands to recordMetric for a response;
\* error = TRUE is the non-empty err.Error(), FALSE the empty string
Classify(resp) ==
    IF resp \in {BuildError, TransportError}
        THEN [status |-> "down", status_code |-> 0, error |-> TRUE]
        ELSE [status |-> IF resp >= 400 THEN "down" ELSE "up",
              status_code |-> resp, error |-> FALSE]

NoResult == [status |-> "none", status_code |-> 0, error |-> FALSE]

\* models.Metric as recordMetric builds it
Metric(m, r, t) ==
    [monitor_id |-> m, status |-> r.status, status_code |-> r.status_code,
     error |-> r.error, checked_at |-> t]

RECURSIVE Gcd(_, _)
Gcd(a, b) == IF b = 0 THEN a ELSE Gcd(b, a % b)

\* a float64 quotient n/d times 100, kept as the exact fraction in lowest terms
Percent(n, d) == LET g == Gcd(n * 100, d) IN <<(n * 100) \div g, d \div g>>

\* collection.Find: the documents the filter {monitor_id, checked_at >= startTime}
\* selects, in the order of the log, from position i on
RECURSIVE Find(_, _, _, _)
Find(log, m, startTime, i) ==
    IF i > Len(log) THEN <<>>
    ELSE IF log[i].monitor_id = m /\ log[i].checked_at >= startTime
        THEN <<log[i]>> \o Find(log, m, startTime, i + 1)
        ELSE Find(log, m, startTime, i + 1)

\* the documents cursor.Next delivers before it returns false: all of them, or
\* all but the last cut when the cursor fails on the way (its error is not read)
Delivered(docs, cut) ==
    SubSeq(docs, 1, IF Len(docs) > cut THEN Len(docs) - cut ELSE 0)

\* the cursor loop of calculateUptimePercentage: <<total, down>> from position i on
RECURSIVE CountDocs(_, _)
CountDocs(docs, i) ==
    IF i > Len(docs) THEN <<0, 0>>
    ELSE LET rest == CountDocs(docs, i + 1)
         IN <<rest[1] + 1, rest[2] + (IF docs[i].status = "down" THEN 1 ELSE 0)>>

\* uptime that counts a window without samples as 0
calculateUptimeFailClosed(log, m, clock, findOk, cut) ==
    LET c == CountDocs(Delivered(Find(log, m, clock - UptimeWindowHours, 1), cut), 1)
    IN IF ~findOk THEN Percent(1, 1)
       ELSE IF c[1] = 0 THEN Percent(0, 1) ELSE Percent(c[1] - c[2], c[1])

\* calculateUptimePercentage; findOk = FALSE is collection.Find returning an error
calculateUptimePercentage(log, m, clock, findOk, cut) ==
    IF ~findOk THEN Percent(1, 1)
    ELSE LET c == CountDocs(Delivered(Find(log, m, clock - UptimeWindowHours, 1), cut), 1)
             total == c[1]
             down == c[2]
         IN IF total = 0 THEN Percent(1, 1) ELSE Percent(total - down, total)

\* models.WebSocketMessage
MetricUpdate(m, r, u) ==
    [type |-> "metric_update", monitor_id |-> m, status |-> r.status,
     uptime_percentage |-> u]
ConnectionEstablished ==
    [type |-> "connection_established", monitor_id |-> 0, status |-> "none",
     uptime_percentage |-> <<0, 1>>]
Pong ==
    [type |-> "pong", monitor_id |-> 0, status |-> "none",
     uptime_percentage |-> <<0, 1>>]

----------------------------------------------------------------------------
(* GET /monitors/:id/metrics: APIHandler.GetMetrics and                     *)
(* MonitorService.GetMetrics                                                *)

StatusOK == 200
StatusBadRequest == 400
StatusInternalServerError == 500

\* the handler's bounds and default of the hours parameter
MaxLookbackHours == 168
DefaultHours == 24

\* the hours query parameter: absent, text that is no number, or a number
\* (one beyond the int range is no number for strconv.Atoi)
HoursQueries ==
    {[kind |-> "absent", n |-> 0], [kind |-> "text", n |-> 0]}
        \cup [kind : {"number"},
              n : {-1, 0, 1, DefaultHours, DefaultHours + 1, MaxLookbackHours,
                   MaxLookbackHours + 1}]

\* c.DefaultQuery("hours", "24")
DefaultQuery(q) ==
    IF q.kind = "absent" THEN [kind |-> "number", n |-> DefaultHours] ELSE q

\* strconv.Atoi
Atoi(q) ==
    IF q.kind = "number" THEN [n |-> q.n, err |-> FALSE]
    ELSE [n |-> 0, err |-> TRUE]

\* APIHandler.GetMetrics: the lookback passed to the service
Lookback(q) ==
    LET hours == Atoi(DefaultQuery(q))
    IN IF hours.err \/ hours.n < 1 \/ hours.n > MaxLookbackHours
           THEN DefaultHours
           ELSE hours.n

\* SetSort({checked_at: -1}): the orders in which the store may return docs,
\* documents of equal checked_at in any order
SortedDescending(docs) ==
    {p \in Permutations(1..Len(docs)) :
        \A i \in 1..Len(docs) : \A j \in 1..Len(docs) :
            i < j => docs[p[i]].checked_at >= docs[p[j]].checked_at}

\* a query without a row limit
NoLimit(docs, limit) == docs

\* SetLimit(limit)
Limit(docs, limit) ==
    SubSeq(docs, 1, IF Len(docs) > limit THEN limit ELSE Len(docs))

\* MonitorService.GetMetrics: the rows of the filter {monitor_id,
\* checked_at >= now - hours}, sorted by order p, cut to the limit
GetMetrics(log, m, hours, clock, p) ==
    LET docs == Find(log, m, clock - hours, 1)
    IN Limit([i \in 1..Len(docs) |-> docs[p[i]]], MaxRows)

NoAnswer ==
    [code |-> 0, id |-> 0, query |-> [kind |-> "absent", n |-> 0], hours |-> 0,
     rows |-> <<>>]

\* APIHandler.GetMetrics for id m and hours query q, for the one request
\* that is followed; hexOk = FALSE is an id that ObjectIDFromHex rejects,
\* findOk = FALSE is collection.Find or cursor.All returning an error
GetMetricsHandler(m, q, hexOk, findOk, p) ==
    /\ Running
    /\ getm = NoAnswer
    /\ p \in SortedDescending(Find(metrics, m, now - Lookback(q), 1))
    /\ getm' =
          IF ~hexOk
              THEN [NoAnswer EXCEPT !.code = StatusBadRequest]
          ELSE IF ~findOk
              THEN [code |-> StatusInternalServerError, id |-> m, query |-> q,
                    hours |-> Lookback(q), rows |-> <<>>]
          ELSE [code |-> StatusOK, id |-> m, query |-> q,
                hours |-> Lookback(q),
                rows |-> GetMetrics(metrics, m, Lookback(q), now, p)]
    /\ UNCHANGED <<monitors, metrics, now, maxConcurrent, nextId, activeJobs,
                   nextJob, jobMon, jobInterval, pc, stopClosed,
                   semaphore, tickerC, ticks, res, upt, ins, scanPc, scanTodo,
                   createPending, creq, delPc, deletedOK, delErr, urlIndex, broadcastCap, sendCap,
                   Broadcast, hubVars>>

----------------------------------------------------------------------------
(* Job Registry: startMonitorJob / stopMonitorJob (one mutex section each) *)

jobVars == <<activeJobs, nextJob, jobMon, jobInterval, pc, stopClosed>>

\* registry that closes no stop channel
CloseNothing(m) == stopClosed

\* close(stopChan) of the job registered for m, if any
CloseExisting(m) ==
    IF activeJobs[m] # NoJob
        THEN [stopClosed EXCEPT ![activeJobs[m]] = TRUE]
        ELSE stopClosed

\* a startMonitorJob that replaces the registry entry without closing it
startMonitorJobNoClose(m, interval) ==
    /\ nextJob <= MaxJobs
    /\ stopClosed' = stopClosed
    /\ activeJobs' = [activeJobs EXCEPT ![m] = nextJob]
    /\ jobMon' = [jobMon EXCEPT ![nextJob] = m]
    /\ jobInterval' = [jobInterval EXCEPT ![nextJob] = interval]
    /\ pc' = [pc EXCEPT ![nextJob] = "start"]
    /\ nextJob' = nextJob + 1

\* startMonitorJob: close the old stop channel, store a new one, spawn the loop
startMonitorJob(m, interval) ==
    /\ nextJob <= MaxJobs
    /\ stopClosed' = CloseExisting(m)
    /\ activeJobs' = [activeJobs EXCEPT ![m] = nextJob]
    /\ jobMon' = [jobMon EXCEPT ![nextJob] = m]
    /\ jobInterval' = [jobInterval EXCEPT ![nextJob] = interval]
    /\ pc' = [pc EXCEPT ![nextJob] = "start"]
    /\ nextJob' = nextJob + 1

\* a stopMonitorJob that closes the stop channel and keeps it registered
stopMonitorJobKeep(m) ==
    /\ stopClosed' = CloseExisting(m)
    /\ UNCHANGED <<activeJobs, nextJob, jobMon, jobInterval, pc>>

\* stopMonitorJob: close and forget the stop channel, if one is registered
stopMonitorJob(m) ==
    /\ stopClosed' = CloseExisting(m)
    /\ activeJobs' = [activeJobs EXCEPT ![m] = NoJob]
    /\ UNCHANGED <<nextJob, jobMon, jobInterval, pc>>

----------------------------------------------------------------------------
(* Startup scan and request handlers.                                      *)

RECURSIVE StoredFrom(_)
\* GetMonitors: the stored documents, in insertion order, from id i on
StoredFrom(i) ==
    IF i > NumMonitors THEN <<>>
    ELSE IF monitors[i].exists
        THEN <<[id |-> i, is_active |-> monitors[i].is_active,
                interval |-> monitors[i].interval]>> \o StoredFrom(i + 1)
        ELSE StoredFrom(i + 1)

\* StartMonitoring, up to the range loop: GetMonitors succeeds or fails
StartMonitoringLoad(ok) ==
    /\ Running
    /\ scanPc = "load"
    /\ IF ok THEN /\ scanTodo' = StoredFrom(1)
                  /\ scanPc' = IF StoredFrom(1) = <<>> THEN "done" ELSE "iterate"
             ELSE /\ scanTodo' = <<>>
                  /\ scanPc' = "failed"
    /\ UNCHANGED <<monitors, metrics, now, maxConcurrent, nextId, jobVars, semaphore, tickerC,
                   ticks, res, upt, ins, createPending, creq, delPc, deletedOK, delErr, getm, urlIndex, broadcastCap, sendCap, Broadcast, hubVars>>

\* a range loop that starts a job for every loaded monitor
StartMonitoringStepAll ==
    /\ Running
    /\ scanPc = "iterate"
    /\ startMonitorJob(Head(scanTodo).id, Head(scanTodo).interval)
    /\ scanTodo' = Tail(scanTodo)
    /\ scanPc' = IF Tail(scanTodo) = <<>> THEN "done" ELSE "iterate"
    /\ UNCHANGED <<monitors, metrics, now, maxConcurrent, nextId, semaphore, tickerC, ticks,
                   res, upt, ins, createPending, creq, delPc, deletedOK, delErr, getm, urlIndex, broadcastCap, sendCap, Broadcast, hubVars>>

\* one iteration of StartMonitoring's range loop
StartMonitoringStep ==
    /\ Running
    /\ scanPc = "iterate"
    /\ IF Head(scanTodo).is_active
          THEN startMonitorJob(Head(scanTodo).id, Head(scanTodo).interval)
          ELSE UNCHANGED jobVars
    /\ scanTodo' = Tail(scanTodo)
    /\ scanPc' = IF Tail(scanTodo) = <<>> THEN "done" ELSE "iterate"
    /\ UNCHANGED <<monitors, metrics, now, maxConcurrent, nextId, semaphore, tickerC, ticks,
                   res, upt, ins, createPending, creq, delPc, deletedOK, delErr, getm, urlIndex, broadcastCap, sendCap, Broadcast, hubVars>>

\* MonitorService.CreateMonitor for a request that names a new URL and leaves
\* the rest to the defaults, with a working store: CountDocuments finds
\* nothing and InsertOne stores the document, taken as one step
CreateMonitor ==
    /\ Running
    /\ nextId <= NumMonitors
    /\ monitors' = [monitors EXCEPT ![nextId] = ToMonitor(DefaultRequest(nextId))]
    /\ createPending' = createPending \cup {nextId}
    /\ nextId' = nextId + 1
    /\ UNCHANGED <<metrics, now, maxConcurrent, jobVars, semaphore, tickerC, ticks,
                   res, upt, ins, scanPc, scanTodo, creq, delPc, deletedOK, delErr, getm, urlIndex, broadcastCap, sendCap,
                   Broadcast, hubVars>>

\* APIHandler.CreateMonitor after the insert: StartMonitorJob(*monitor, wsHub)
CreateStartJob(m) ==
    /\ Running
    /\ m \in createPending
    /\ startMonitorJob(m, ToMonitor(DefaultRequest(m)).interval)
    /\ createPending' = createPending \ {m}
    /\ UNCHANGED <<monitors, metrics, now, maxConcurrent, nextId, semaphore, tickerC, ticks,
                   res, upt, ins, scanPc, scanTodo, creq, delPc, deletedOK, delErr, getm, urlIndex, broadcastCap, sendCap, Broadcast,
                   hubVars>>

\* HTTP statuses of APIHandler.CreateMonitor
StatusCreated == 201
StatusConflict == 409

\* README, Monitor Configuration: "Interval: Check interval in seconds
\* (minimum: 5 seconds)"
MinimumInterval == 5

\* intervals and timeouts a create request may carry, in seconds
RequestIntervals == {-5, 0, 1, 5}
RequestTimeouts == {-1, 0, 2}

NoRequest == [pc |-> "idle", url |-> 0, interval |-> 0, timeout |-> 0,
              id |-> 0, code |-> 0]

createFrame == <<metrics, now, maxConcurrent, semaphore, tickerC, ticks, res,
                 upt, ins, scanPc, scanTodo, createPending, delPc, deletedOK, delErr, getm, urlIndex, broadcastCap, sendCap,
                 Broadcast, hubVars>>

\* MonitorService.CreateMonitor: CountDocuments({url}) > 0
UrlExists(u) == \E m \in MonitorIds : monitors[m].exists /\ monitors[m].url = u

\* a handler that answers every service error as an internal error
CreateErrorStatusInternal(duplicate) == StatusInternalServerError

\* the handler's answer to an error of MonitorService.CreateMonitor: the
\* duplicate-URL error is a conflict, any other error an internal error
CreateErrorStatus(duplicate) ==
    IF duplicate THEN StatusConflict ELSE StatusInternalServerError

\* APIHandler.CreateMonitor: ShouldBindJSON succeeds, monitor := req.ToMonitor()
CreateRequest(r, req) ==
    /\ Running
    /\ creq[r].pc = "idle"
    /\ \A q \in RequestIds : q < r => creq[q].pc # "idle"
    /\ creq' = [creq EXCEPT ![r] =
                   [NoRequest EXCEPT !.pc = "count",
                                     !.url = ToMonitor(req).url,
                                     !.interval = ToMonitor(req).interval,
                                     !.timeout = ToMonitor(req).timeout]]
    /\ UNCHANGED <<monitors, nextId, jobVars, createFrame>>

\* MonitorService.CreateMonitor: CountDocuments fails (ok = FALSE), finds the
\* URL, or finds nothing
CreateCount(r, ok) ==
    /\ Running
    /\ creq[r].pc = "count"
    /\ creq' = [creq EXCEPT ![r] =
                   IF ok /\ ~UrlExists(creq[r].url)
                       THEN [@ EXCEPT !.pc = "insert"]
                       ELSE [@ EXCEPT !.pc = "done",
                                      !.code = CreateErrorStatus(ok)]]
    /\ UNCHANGED <<monitors, nextId, jobVars, createFrame>>

\* InsertOne into monitors goes through: the store works and the unique
\* index on url, where it exists, finds no document with the URL
InsertAccepted(u, ok) == ok /\ ~(urlIndex /\ UrlExists(u))

\* MonitorService.CreateMonitor: InsertOne fails (store error or duplicate
\* key) or stores the document under a new id
CreateInsert(r, ok) ==
    /\ Running
    /\ creq[r].pc = "insert"
    /\ IF InsertAccepted(creq[r].url, ok)
          THEN /\ nextId <= NumMonitors
               /\ monitors' = [monitors EXCEPT ![nextId] =
                                  [exists |-> TRUE, is_active |-> TRUE,
                                   current_status |-> "unknown",
                                   url |-> creq[r].url,
                                   interval |-> creq[r].interval,
                                   timeout |-> creq[r].timeout,
                                   uptime_percentage |->
                                       <<CreationUptimePercentage, 1>>]]
               /\ nextId' = nextId + 1
               /\ creq' = [creq EXCEPT ![r].pc = "start", ![r].id = nextId]
          ELSE /\ creq' = [creq EXCEPT ![r].pc = "done",
                                       ![r].code = CreateErrorStatus(FALSE)]
               /\ UNCHANGED <<monitors, nextId>>
    /\ UNCHANGED <<jobVars, createFrame>>

\* APIHandler.CreateMonitor after the insert: StartMonitorJob(*monitor, wsHub),
\* then the answer
CreateStart(r) ==
    /\ Running
    /\ creq[r].pc = "start"
    /\ startMonitorJob(creq[r].id, creq[r].interval)
    /\ creq' = [creq EXCEPT ![r].pc = "done", ![r].code = StatusCreated]
    /\ UNCHANGED <<monitors, nextId, createFrame>>

\* delete requests arrive one at a time, until one has succeeded
DeleteAdmitted == \A k \in MonitorIds : delPc[k] = "idle" /\ ~deletedOK[k]

\* MonitorService.DeleteMonitor, first half: ms.stopMonitorJob(id.Hex())
DeleteStopJob(m) ==
    /\ Running
    /\ DeleteAdmitted
    /\ stopMonitorJob(m)
    /\ delPc' = [delPc EXCEPT ![m] = "delete"]
    /\ UNCHANGED <<monitors, metrics, now, maxConcurrent, nextId, semaphore, tickerC, ticks,
                   res, upt, ins, scanPc, scanTodo, createPending, creq, deletedOK, delErr, getm, urlIndex, broadcastCap, sendCap, Broadcast, hubVars>>

\* a DeleteMonitor that takes a call that deleted nothing for a success
DeleteMonitorErrorIgnoreCount(exists, ok) ==
    IF ~ok THEN "store error" ELSE "nil"

\* MonitorService.DeleteMonitor, the returned error: the error of DeleteOne,
\* "monitor not found" when DeletedCount is 0, nil otherwise
DeleteMonitorError(exists, ok) ==
    IF ~ok THEN "store error"
    ELSE IF ~exists THEN "monitor not found"
    ELSE "nil"

\* MonitorService.DeleteMonitor, second half: DeleteOne and the result: an
\* error of the store, nil after a deletion, or "monitor not found"
DeleteOneResult(m, ok) ==
    /\ Running
    /\ delPc[m] = "delete"
    /\ delPc' = [delPc EXCEPT ![m] = "idle"]
    /\ monitors' = IF ok THEN [monitors EXCEPT ![m] = NoMonitor] ELSE monitors
    /\ deletedOK' = [deletedOK EXCEPT ![m] =
                        @ \/ DeleteMonitorError(monitors[m].exists, ok) = "nil"]
    /\ UNCHANGED <<metrics, now, maxConcurrent, nextId, jobVars, semaphore, tickerC, ticks,
                   res, upt, ins, scanPc, scanTodo, createPending, creq, getm, urlIndex, broadcastCap, sendCap,
                   Broadcast, hubVars>>

\* the call, with its result left unrecorded
DeleteOne(m, ok) ==
    /\ DeleteOneResult(m, ok)
    /\ UNCHANGED delErr

\* the call, with its result recorded for the caller
DeleteOneReturn(m, ok) ==
    /\ DeleteOneResult(m, ok)
    /\ delErr' = [delErr EXCEPT ![m] =
                     @ \cup {DeleteMonitorError(monitors[m].exists, ok)}]

----------------------------------------------------------------------------
(* Scheduler Loop: the goroutine of startMonitorJob, checkEndpoint and      *)
(* recordMetric.                                                            *)

loopFrame == <<monitors, metrics, now, maxConcurrent, nextId, activeJobs, nextJob, jobMon, jobInterval,
               stopClosed, scanPc, scanTodo, createPending, creq, delPc, deletedOK, delErr, getm, urlIndex, broadcastCap, sendCap,
               hubVars>>

\* the ticker delivers a tick into ticker.C (capacity 1) of a live loop; a
\* tick that finds one pending is dropped by the runtime and never reaches
\* the loop
TickerFire(l) ==
    /\ Running
    /\ pc[l] \notin {"none", "start", "stopped"}
    /\ ~tickerC[l]
    /\ ticks < MaxTicks
    /\ tickerC' = [tickerC EXCEPT ![l] = TRUE]
    /\ ticks' = ticks + 1
    /\ UNCHANGED <<loopFrame, semaphore, pc, res, upt, ins, Broadcast>>

\* loop that waits for its first tick before probing
LoopStartNoProbe(l) ==
    /\ Running
    /\ pc[l] = "start"
    /\ pc' = [pc EXCEPT ![l] = "select"]
    /\ UNCHANGED <<loopFrame, semaphore, tickerC, ticks, res, upt, ins, Broadcast>>

\* the goroutine starts: ticker created, then the immediate checkEndpoint
\* call; time.NewTicker panics on a non-positive interval
LoopStart(l) ==
    /\ Running
    /\ pc[l] = "start"
    /\ IF jobInterval[l] <= 0
          THEN /\ panicked' = TRUE
               /\ pc' = [pc EXCEPT ![l] = "stopped"]
          ELSE /\ pc' = [pc EXCEPT ![l] = "acquire"]
               /\ UNCHANGED panicked
    /\ UNCHANGED <<monitors, metrics, now, maxConcurrent, nextId, activeJobs,
                   nextJob, jobMon, jobInterval, stopClosed, scanPc, scanTodo,
                   createPending, creq, delPc, deletedOK, delErr, getm, urlIndex, broadcastCap, sendCap, Clients, hpc, hcur, hmsg,
                   btodo, Send, closedBy, connClosed, rpc, wpc,
                   semaphore, tickerC, ticks, res, upt, ins, Broadcast>>

\* select: case <-ticker.C: ms.checkEndpoint(monitor, wsHub)
LoopTick(l) ==
    /\ Running
    /\ pc[l] = "select"
    /\ tickerC[l]
    /\ tickerC' = [tickerC EXCEPT ![l] = FALSE]
    /\ pc' = [pc EXCEPT ![l] = "acquire"]
    /\ UNCHANGED <<loopFrame, semaphore, ticks, res, upt, ins, Broadcast>>

\* select: case <-stopChan: return (deferred ticker.Stop)
LoopStop(l) ==
    /\ Running
    /\ pc[l] = "select"
    /\ stopClosed[l]
    /\ pc' = [pc EXCEPT ![l] = "stopped"]
    /\ tickerC' = [tickerC EXCEPT ![l] = FALSE]
    /\ UNCHANGED <<loopFrame, semaphore, ticks, res, upt, ins, Broadcast>>

\* limiter that admits every probe
SemaphoreFreeAlways == TRUE

\* the send ms.semaphore <- struct{}{} can proceed
SemaphoreFree == semaphore < maxConcurrent

\* a checkEndpoint that goes on without putting a token into the limiter
AcquireUncounted(l) ==
    /\ Running
    /\ pc[l] = "acquire"
    /\ SemaphoreFree
    /\ semaphore' = semaphore
    /\ pc' = [pc EXCEPT ![l] = "http"]
    /\ UNCHANGED <<loopFrame, tickerC, ticks, res, upt, ins, Broadcast>>

\* checkEndpoint: acquire a slot of the limiter
Acquire(l) ==
    /\ Running
    /\ pc[l] = "acquire"
    /\ SemaphoreFree
    /\ semaphore' = semaphore + 1
    /\ pc' = [pc EXCEPT ![l] = "http"]
    /\ UNCHANGED <<loopFrame, tickerC, ticks, res, upt, ins, Broadcast>>

\* insert that stores the Metric twice
InsertMetricTwice(log, m, r, t, ok) ==
    IF ok THEN Append(Append(log, Metric(m, r, t)), Metric(m, r, t)) ELSE log

\* recordMetric: InsertOne of the Metric; a failed insert is logged and dropped
InsertMetric(log, m, r, t, ok) ==
    IF ok THEN Append(log, Metric(m, r, t)) ELSE log

\* checkEndpoint: the request ends with response resp; recordMetric inserts the
\* Metric
Probe(l, resp, ok) ==
    /\ Running
    /\ pc[l] = "http"
    /\ res' = [res EXCEPT ![l] = Classify(resp)]
    /\ metrics' = InsertMetric(metrics, jobMon[l], Classify(resp), now, ok)
    /\ ins' = [ins EXCEPT ![l] = IF ok THEN Len(metrics) + 1 ELSE 0]
    /\ pc' = [pc EXCEPT ![l] = "update"]
    /\ UNCHANGED <<monitors, now, maxConcurrent, nextId, activeJobs, nextJob, jobMon, jobInterval, stopClosed,
                   scanPc, scanTodo, createPending, creq, delPc, deletedOK, delErr, getm, urlIndex, broadcastCap, sendCap, hubVars,
                   semaphore, tickerC, ticks, upt, Broadcast>>

\* an updateMonitorStatus that also stores an uptime with the status
updateMonitorStatusWithUptime(m, r, ok) ==
    IF ok /\ monitors[m].exists
        THEN [monitors EXCEPT ![m].current_status = r.status,
                              ![m].uptime_percentage =
                                  IF r.status = "down"
                                      THEN <<0, 1>>
                                      ELSE <<CreationUptimePercentage, 1>>]
        ELSE monitors

\* updateMonitorStatus: UpdateOne keyed by _id; no document, no change
updateMonitorStatus(m, r, ok) ==
    IF ok /\ monitors[m].exists
        THEN [monitors EXCEPT ![m].current_status = r.status]
        ELSE monitors

\* recordMetric that returns when the status update fails
UpdateStatusAbortOnError(l, ok) ==
    /\ Running
    /\ pc[l] = "update"
    /\ monitors' = updateMonitorStatus(jobMon[l], res[l], ok)
    /\ pc' = [pc EXCEPT ![l] = IF ok THEN "uptime" ELSE "select"]
    /\ semaphore' = IF ok THEN semaphore ELSE semaphore - 1
    /\ UNCHANGED <<metrics, now, maxConcurrent, nextId, activeJobs, nextJob, jobMon, jobInterval, stopClosed,
                   scanPc, scanTodo, createPending, creq, delPc, deletedOK, delErr, getm, urlIndex, broadcastCap, sendCap, hubVars,
                   tickerC, ticks, res, upt, ins, Broadcast>>

\* recordMetric: ms.updateMonitorStatus(...)
UpdateStatus(l, ok) ==
    /\ Running
    /\ pc[l] = "update"
    /\ monitors' = updateMonitorStatus(jobMon[l], res[l], ok)
    /\ pc' = [pc EXCEPT ![l] = "uptime"]
    /\ UNCHANGED <<metrics, now, maxConcurrent, nextId, activeJobs, nextJob, jobMon, jobInterval, stopClosed,
                   scanPc, scanTodo, createPending, creq, delPc, deletedOK, delErr, getm, urlIndex, broadcastCap, sendCap, hubVars,
                   semaphore, tickerC, ticks, res, upt, ins, Broadcast>>

\* recordMetric: uptimePercentage := ms.calculateUptimePercentage(monitor.ID)
CalculateUptime(l, findOk, cut) ==
    /\ Running
    /\ pc[l] = "uptime"
    /\ upt' = [upt EXCEPT ![l] =
                  calculateUptimePercentage(metrics, jobMon[l], now, findOk, cut)]
    /\ pc' = [pc EXCEPT ![l] = "broadcast"]
    /\ UNCHANGED <<loopFrame, semaphore, tickerC, ticks, res, ins, Broadcast>>

\* the send wsHub.Broadcast <- msg of recordMetric can proceed
BroadcastReady == Len(Broadcast) < broadcastCap

\* checkEndpoint that returns without giving its slot back
PublishAndKeepSlot(l) ==
    /\ Running
    /\ pc[l] = "broadcast"
    /\ BroadcastReady
    /\ Broadcast' = Append(Broadcast, MetricUpdate(jobMon[l], res[l], upt[l]))
    /\ semaphore' = semaphore
    /\ res' = [res EXCEPT ![l] = NoResult]
    /\ upt' = [upt EXCEPT ![l] = <<0, 1>>]
    /\ ins' = [ins EXCEPT ![l] = 0]
    /\ pc' = [pc EXCEPT ![l] = "select"]
    /\ UNCHANGED <<loopFrame, tickerC, ticks>>

\* recordMetric whose loop gives up after a probe classified down
PublishAndReleaseStopOnDown(l) ==
    /\ Running
    /\ pc[l] = "broadcast"
    /\ BroadcastReady
    /\ Broadcast' = Append(Broadcast, MetricUpdate(jobMon[l], res[l], upt[l]))
    /\ semaphore' = semaphore - 1
    /\ res' = [res EXCEPT ![l] = NoResult]
    /\ upt' = [upt EXCEPT ![l] = <<0, 1>>]
    /\ ins' = [ins EXCEPT ![l] = 0]
    /\ pc' = [pc EXCEPT ![l] = IF res[l].status = "down" THEN "stopped"
                                                          ELSE "select"]
    /\ UNCHANGED <<loopFrame, tickerC, ticks>>

\* recordMetric: wsHub.Broadcast <- message; then checkEndpoint returns and its
\* deferred function gives the slot back
PublishAndRelease(l) ==
    /\ Running
    /\ pc[l] = "broadcast"
    /\ BroadcastReady
    /\ Broadcast' = Append(Broadcast, MetricUpdate(jobMon[l], res[l], upt[l]))
    /\ semaphore' = semaphore - 1
    /\ res' = [res EXCEPT ![l] = NoResult]
    /\ upt' = [upt EXCEPT ![l] = <<0, 1>>]
    /\ ins' = [ins EXCEPT ![l] = 0]
    /\ pc' = [pc EXCEPT ![l] = "select"]
    /\ UNCHANGED <<loopFrame, tickerC, ticks>>

----------------------------------------------------------------------------
(* Broadcast Hub: WebSocketHub.Run and unregisterClient.                   *)

NoClient == 0
NoMessage == [type |-> "none", monitor_id |-> 0, status |-> "none",
              uptime_percentage |-> <<0, 1>>]

\* senders parked on the unbuffered channels hub.Register and hub.Unregister
Register == {c \in ClientIds : rpc[c] = "register"}
Unregister == {c \in ClientIds : rpc[c] = "unregister"}

\* client.Send has been closed
SendClosed(c) == closedBy[c] # <<>>

\* select { case client.Send <- msg: default: } would take the send branch
SendReady(c) == Len(Send[c]) < sendCap

\* eviction that empties the observer set
ClientsWithoutAll(c) == {}

\* the members left after unregisterClient(c): delete(h.Clients, client) if present
ClientsWithout(c) == Clients \ {c}

\* unregisterClient: if present, delete, close(client.Send), client.Conn.Close()
unregisterClient(c) ==
    IF c \in Clients
        THEN /\ Clients' = ClientsWithout(c)
             /\ closedBy' = [closedBy EXCEPT ![c] = Append(@, "evict")]
             /\ connClosed' = [connClosed EXCEPT ![c] = TRUE]
        ELSE UNCHANGED <<Clients, closedBy, connClosed>>

\* an enqueue that waits for room in the queue of c
SendBlocking(c, msg) ==
    /\ SendReady(c)
    /\ Send' = [Send EXCEPT ![c] = Append(@, msg)]
    /\ UNCHANGED <<Clients, closedBy, connClosed>>

\* non-blocking enqueue of msg to c, evicting c when its queue is full
SendOrEvict(c, msg) ==
    IF SendReady(c)
        THEN /\ Send' = [Send EXCEPT ![c] = Append(@, msg)]
             /\ UNCHANGED <<Clients, closedBy, connClosed>>
        ELSE /\ unregisterClient(c)
             /\ UNCHANGED Send

\* Run, case client := <-h.Register: h.Clients[client] = true; the handler's
\* send returns and it starts the two pumps
HubRegister(c) ==
    /\ Running
    /\ hpc = "select"
    /\ c \in Register
    /\ Clients' = Clients \cup {c}
    /\ hpc' = "welcome"
    /\ hcur' = c
    /\ rpc' = [rpc EXCEPT ![c] = "read"]
    /\ wpc' = [wpc EXCEPT ![c] = "write"]
    /\ UNCHANGED <<schedVars, Broadcast, hmsg, btodo, Send, closedBy,
                   connClosed, panicked>>

\* Register case that drops the welcome message of a full queue and keeps
\* the observer
HubWelcomeNoEvict ==
    /\ Running
    /\ hpc = "welcome"
    /\ Send' = [Send EXCEPT ![hcur] =
                    IF SendReady(hcur) THEN Append(@, ConnectionEstablished) ELSE @]
    /\ hpc' = "select"
    /\ hcur' = NoClient
    /\ UNCHANGED <<schedVars, Broadcast, hmsg, btodo, rpc, wpc, panicked,
                   Clients, closedBy, connClosed>>

\* Run, Register case continued: the welcome message, or eviction
HubWelcome ==
    /\ Running
    /\ hpc = "welcome"
    /\ SendOrEvict(hcur, ConnectionEstablished)
    /\ hpc' = "select"
    /\ hcur' = NoClient
    /\ UNCHANGED <<schedVars, Broadcast, hmsg, btodo, rpc, wpc, panicked>>

\* Unregister case without the membership test
UnregisterCaseUnchecked(c) ==
    /\ Clients' = ClientsWithout(c)
    /\ closedBy' = [closedBy EXCEPT ![c] = Append(@, "unregister")]

\* Run, body of case client := <-h.Unregister: if present, delete and close
UnregisterCase(c) ==
    IF c \in Clients
        THEN /\ Clients' = ClientsWithout(c)
             /\ closedBy' = [closedBy EXCEPT ![c] = Append(@, "unregister")]
        ELSE UNCHANGED <<Clients, closedBy>>

\* Run, case client := <-h.Unregister; ReadPump's deferred Conn.Close follows
HubUnregister(c) ==
    /\ Running
    /\ hpc = "select"
    /\ c \in Unregister
    /\ UnregisterCase(c)
    /\ rpc' = [rpc EXCEPT ![c] = "done"]
    /\ connClosed' = [connClosed EXCEPT ![c] = TRUE]
    /\ UNCHANGED <<schedVars, Broadcast, hpc, hcur, hmsg, btodo, Send, wpc,
                   panicked>>

\* Run, case message := <-h.Broadcast: the range loop over h.Clients begins
HubBroadcast ==
    /\ Running
    /\ hpc = "select"
    /\ Broadcast # <<>>
    /\ Broadcast' = Tail(Broadcast)
    /\ IF Clients = {}
          THEN UNCHANGED <<hpc, hmsg, btodo>>
          ELSE /\ hpc' = "broadcast"
               /\ hmsg' = Head(Broadcast)
               /\ btodo' = Clients
    /\ UNCHANGED <<schedVars, Clients, hcur, Send, closedBy, connClosed, rpc,
                   wpc, panicked>>

\* Run, Broadcast case: the range loop reaches client c
HubBroadcastTo(c) ==
    /\ Running
    /\ hpc = "broadcast"
    /\ c \in btodo
    /\ SendOrEvict(c, hmsg)
    /\ btodo' = btodo \ {c}
    /\ IF btodo = {c}
          THEN hpc' = "select" /\ hmsg' = NoMessage
          ELSE UNCHANGED <<hpc, hmsg>>
    /\ UNCHANGED <<schedVars, Broadcast, hcur, rpc, wpc, panicked>>

----------------------------------------------------------------------------
(* Observer session: HandleWebSocket, ReadPump, WritePump.                 *)

clientFrame == <<schedVars, Broadcast, Clients, hpc, hcur, hmsg, btodo>>

MessageTypes == {"ping", "subscribe_monitor", "unknown"}

\* HandleWebSocket: upgrade, NewWebSocketClient, then h.hub.Register <- client
HandleWebSocket(c) ==
    /\ Running
    /\ rpc[c] = "none"
    /\ \A d \in ClientIds : d < c => rpc[d] # "none"
    /\ rpc' = [rpc EXCEPT ![c] = "register"]
    /\ UNCHANGED <<clientFrame, Send, closedBy, connClosed, wpc, panicked>>

\* ReadPump: ReadJSON returns a message of type t; a type that
\* handleClientMessage only logs is done with in the same step
ReadPumpMessage(c, t) ==
    /\ Running
    /\ rpc[c] = "read"
    /\ ~connClosed[c]
    /\ rpc' = [rpc EXCEPT ![c] = IF t = "ping" THEN "ping" ELSE "read"]
    /\ UNCHANGED <<clientFrame, Send, closedBy, connClosed, wpc, panicked>>

\* ReadPump that removes its client from hub.Clients itself
ReadPumpErrorSelfRemove(c) ==
    /\ Running
    /\ rpc[c] = "read"
    /\ rpc' = [rpc EXCEPT ![c] = "done"]
    /\ Clients' = Clients \ {c}
    /\ closedBy' = [closedBy EXCEPT ![c] = IF c \in Clients THEN Append(@, "unregister") ELSE @]
    /\ connClosed' = [connClosed EXCEPT ![c] = TRUE]
    /\ UNCHANGED <<schedVars, Broadcast, hpc, hcur, hmsg, btodo, Send, wpc, panicked>>

\* a ReadPump that returns without a word to the hub
ReadPumpErrorSilent(c) ==
    /\ Running
    /\ rpc[c] = "read"
    /\ rpc' = [rpc EXCEPT ![c] = "done"]
    /\ connClosed' = [connClosed EXCEPT ![c] = TRUE]
    /\ UNCHANGED <<clientFrame, Send, closedBy, wpc, panicked>>

\* ReadPump: ReadJSON returns an error; the deferred function parks on Unregister
ReadPumpError(c) ==
    /\ Running
    /\ rpc[c] = "read"
    /\ rpc' = [rpc EXCEPT ![c] = "unregister"]
    /\ UNCHANGED <<clientFrame, Send, closedBy, connClosed, wpc, panicked>>

\* handleClientMessage, case "ping": non-blocking send of a pong to c.Send;
\* a send on a closed channel panics
handleClientMessage(c) ==
    /\ Running
    /\ rpc[c] = "ping"
    /\ rpc' = [rpc EXCEPT ![c] = "read"]
    /\ IF SendClosed(c)
          THEN panicked' = TRUE /\ UNCHANGED Send
          ELSE /\ Send' = [Send EXCEPT ![c] =
                              IF SendReady(c) THEN Append(@, Pong) ELSE @]
               /\ UNCHANGED panicked
    /\ UNCHANGED <<clientFrame, closedBy, connClosed, wpc>>

\* a WritePump that takes the newest message of c.Send
WritePumpMessageNewest(c, werr) ==
    /\ Running
    /\ wpc[c] = "write"
    /\ Send[c] # <<>>
    /\ Send' = [Send EXCEPT ![c] = SubSeq(@, 1, Len(@) - 1)]
    /\ IF werr \/ connClosed[c]
          THEN /\ wpc' = [wpc EXCEPT ![c] = "done"]
               /\ connClosed' = [connClosed EXCEPT ![c] = TRUE]
          ELSE UNCHANGED <<wpc, connClosed>>
    /\ UNCHANGED <<clientFrame, closedBy, rpc, panicked>>

\* WritePump: a message is received from c.Send and written; werr = WriteJSON fails
WritePumpMessage(c, werr) ==
    /\ Running
    /\ wpc[c] = "write"
    /\ Send[c] # <<>>
    /\ Send' = [Send EXCEPT ![c] = Tail(@)]
    /\ IF werr \/ connClosed[c]
          THEN /\ wpc' = [wpc EXCEPT ![c] = "done"]
               /\ connClosed' = [connClosed EXCEPT ![c] = TRUE]
          ELSE UNCHANGED <<wpc, connClosed>>
    /\ UNCHANGED <<clientFrame, closedBy, rpc, panicked>>

\* WritePump: c.Send is closed and drained; close frame, return, Conn.Close
WritePumpClosed(c) ==
    /\ Running
    /\ wpc[c] = "write"
    /\ Send[c] = <<>>
    /\ SendClosed(c)
    /\ wpc' = [wpc EXCEPT ![c] = "done"]
    /\ connClosed' = [connClosed EXCEPT ![c] = TRUE]
    /\ UNCHANGED <<clientFrame, Send, closedBy, rpc, panicked>>

\* WritePump: idle for 60 s, keepalive ping; werr = WriteMessage fails
WritePumpPing(c, werr) ==
    /\ Running
    /\ wpc[c] = "write"
    /\ Send[c] = <<>>
    /\ ~SendClosed(c)
    /\ IF werr \/ connClosed[c]
          THEN /\ wpc' = [wpc EXCEPT ![c] = "done"]
               /\ connClosed' = [connClosed EXCEPT ![c] = TRUE]
          ELSE UNCHANGED <<wpc, connClosed>>
    /\ UNCHANGED <<clientFrame, Send, closedBy, rpc, panicked>>

----------------------------------------------------------------------------
(* The system.                                                             *)

\* monitors the store may hold when the process starts
InitialStores ==
    { [m \in MonitorIds |-> NoMonitor],
      [m \in MonitorIds |-> IF m = 1 THEN ToMonitor(DefaultRequest(1)) ELSE NoMonitor],
      [m \in MonitorIds |-> IF m = 1 THEN [ToMonitor(DefaultRequest(1))
                                               EXCEPT !.is_active = FALSE]
                                     ELSE NoMonitor] }

\* InitMongoDB, then NewMonitorService(db, capacity): createIndexes has
\* created the unique index on url (indexed), or has failed, which is only
\* logged
InitServiceOn(capacity, indexed) ==
    /\ activeJobs = [m \in MonitorIds |-> NoJob]
    /\ semaphore = 0
    /\ maxConcurrent = capacity
    /\ nextJob = 1
    /\ jobMon = [l \in JobIds |-> 0]
    /\ jobInterval = [l \in JobIds |-> 0]
    /\ pc = [l \in JobIds |-> "none"]
    /\ stopClosed = [l \in JobIds |-> FALSE]
    /\ tickerC = [l \in JobIds |-> FALSE]
    /\ ticks = 0
    /\ res = [l \in JobIds |-> NoResult]
    /\ upt = [l \in JobIds |-> <<0, 1>>]
    /\ ins = [l \in JobIds |-> 0]
    /\ scanPc = "load"
    /\ scanTodo = <<>>
    /\ createPending = {}
    /\ creq = [r \in RequestIds |-> NoRequest]
    /\ delPc = [m \in MonitorIds |-> "idle"]
    /\ deletedOK = [m \in MonitorIds |-> FALSE]
    /\ delErr = [m \in MonitorIds |-> {}]
    /\ getm = NoAnswer
    /\ urlIndex \in indexed

\* NewMonitorService(db, capacity) over a database whose indexes exist
InitServiceWith(capacity) == InitServiceOn(capacity, {TRUE})

InitService == InitServiceWith(MaxConcurrent)

\* NewWebSocketHub with an inbound queue of bcap, clients with queues of scap
InitHubOn(bcap, scap) ==
    /\ broadcastCap = bcap
    /\ sendCap = scap
    /\ Broadcast = <<>>
    /\ Clients = {}
    /\ hpc = "select"
    /\ hcur = NoClient
    /\ hmsg = NoMessage
    /\ btodo = {}
    /\ Send = [c \in ClientIds |-> <<>>]
    /\ closedBy = [c \in ClientIds |-> <<>>]
    /\ connClosed = [c \in ClientIds |-> FALSE]
    /\ rpc = [c \in ClientIds |-> "none"]
    /\ wpc = [c \in ClientIds |-> "none"]
    /\ panicked = FALSE

InitHub == InitHubOn(BroadcastCap, SendCap)

Init ==
    /\ monitors \in InitialStores
    /\ nextId = IF monitors[1].exists THEN 2 ELSE 1
    /\ metrics = <<>>
    /\ now = UptimeWindowHours
    /\ InitService
    /\ InitHub

StartupStep ==
    \/ \E ok \in BOOLEAN : StartMonitoringLoad(ok)
    \/ StartMonitoringStep

RequestStep ==
    \/ CreateMonitor
    \/ \E m \in MonitorIds : CreateStartJob(m)
    \/ \E m \in MonitorIds : DeleteStopJob(m)
    \/ \E m \in MonitorIds : \E ok \in BOOLEAN : DeleteOne(m, ok)

LoopStep ==
    \/ \E l \in JobIds : TickerFire(l)
    \/ \E l \in JobIds : LoopStart(l)
    \/ \E l \in JobIds : LoopTick(l)
    \/ \E l \in JobIds : LoopStop(l)
    \/ \E l \in JobIds : Acquire(l)
    \/ \E l \in JobIds : \E resp \in Targets : \E ok \in BOOLEAN : Probe(l, resp, ok)
    \/ \E l \in JobIds : \E ok \in BOOLEAN : UpdateStatus(l, ok)
    \/ \E l \in JobIds : \E ok \in BOOLEAN : CalculateUptime(l, ok, 0)
    \/ \E l \in JobIds : PublishAndRelease(l)

HubStep ==
    \/ \E c \in ClientIds : HubRegister(c)
    \/ HubWelcome
    \/ \E c \in ClientIds : HubUnregister(c)
    \/ HubBroadcast
    \/ \E c \in ClientIds : HubBroadcastTo(c)

ClientStep ==
    \/ \E c \in ClientIds : HandleWebSocket(c)
    \/ \E c \in ClientIds : \E t \in MessageTypes : ReadPumpMessage(c, t)
    \/ \E c \in ClientIds : ReadPumpError(c)
    \/ \E c \in ClientIds : handleClientMessage(c)
    \/ \E c \in ClientIds : \E werr \in BOOLEAN : WritePumpMessage(c, werr)
    \/ \E c \in ClientIds : WritePumpClosed(c)
    \/ \E c \in ClientIds : \E werr \in BOOLEAN : WritePumpPing(c, werr)

Next == StartupStep \/ RequestStep \/ LoopStep \/ HubStep \/ ClientStep

Spec == Init /\ [][Next]_vars

----------------------------------------------------------------------------
(* Scheduler with a hub nobody has connected to.                           *)

NextSched == StartupStep \/ RequestStep \/ LoopStep \/ HubBroadcast

SpecSched == Init /\ [][NextSched]_vars

----------------------------------------------------------------------------
(* Hub and observers, fed by the loop of one stored monitor.               *)

InitHubScenario ==
    /\ monitors = [m \in MonitorIds |->
                       IF m = 1 THEN ToMonitor(DefaultRequest(1)) ELSE NoMonitor]
    /\ nextId = 2
    /\ metrics = <<>>
    /\ now = UptimeWindowHours
    /\ InitService
    /\ InitHub

\* the loop of the stored monitor: nothing replaces or stops it
PublisherStep ==
    \/ \E l \in JobIds : TickerFire(l)
    \/ \E l \in JobIds : LoopStart(l)
    \/ \E l \in JobIds : LoopTick(l)
    \/ \E l \in JobIds : Acquire(l)
    \/ \E l \in JobIds : \E resp \in Targets : \E ok \in BOOLEAN : Probe(l, resp, ok)
    \/ \E l \in JobIds : \E ok \in BOOLEAN : UpdateStatus(l, ok)
    \/ \E l \in JobIds : \E ok \in BOOLEAN : CalculateUptime(l, ok, 0)
    \/ \E l \in JobIds : PublishAndRelease(l)

NextHub == StartupStep \/ PublisherStep \/ HubStep \/ ClientStep

SpecHub == InitHubScenario /\ [][NextHub]_vars

----------------------------------------------------------------------------
(* Result Sink over a metric log left by earlier runs of the process.      *)

\* n copies of metric x
RECURSIVE Repeat(_, _)
Repeat(x, n) == IF n = 0 THEN <<>> ELSE <<x>> \o Repeat(x, n - 1)

\* a stored log: nOld samples of monitor 1 checked at hour 0, nOther samples
\* of monitor 2, then nUp "up" and nDown "down" samples of monitor 1
StoredLog(nOld, nOther, nUp, nDown) ==
    Repeat(Metric(1, Classify(TransportError), 0), nOld)
    \o Repeat(Metric(2, Classify(TransportError), 1), nOther)
    \o Repeat(Metric(1, Classify(200), 1), nUp)
    \o Repeat(Metric(1, Classify(500), 1), nDown)

InitUptime ==
    /\ monitors = [m \in MonitorIds |->
                       IF m = 1 THEN ToMonitor(DefaultRequest(1)) ELSE NoMonitor]
    /\ nextId = 2
    /\ \E nOld \in 0..1, nOther \in 0..1, nUp \in 0..MaxUp, nDown \in 0..MaxDown :
           metrics = StoredLog(nOld, nOther, nUp, nDown)
    /\ now \in {UptimeWindowHours, UptimeWindowHours + 1}
    /\ InitService
    /\ InitHub

ResultSinkStep ==
    \/ \E l \in JobIds : LoopStart(l)
    \/ \E l \in JobIds : Acquire(l)
    \/ \E l \in JobIds : \E resp \in Responses : \E ok \in BOOLEAN : Probe(l, resp, ok)
    \/ \E l \in JobIds : \E ok \in BOOLEAN : UpdateStatus(l, ok)
    \/ \E l \in JobIds : \E ok \in BOOLEAN : \E cut \in 0..MaxCut :
           CalculateUptime(l, ok, cut)
    \/ \E l \in JobIds : PublishAndRelease(l)

NextUptime == StartupStep \/ ResultSinkStep \/ HubBroadcast

SpecUptime == InitUptime /\ [][NextUptime]_vars

----------------------------------------------------------------------------
(* The probe path of one stored monitor under the Go scheduler: a runnable    *)
(* goroutine runs, and a storage or HTTP call returns.                        *)

\* the steps of loop l that wait for nothing but the scheduler
LoopProgress(l) ==
    \/ LoopStart(l)
    \/ LoopTick(l)
    \/ Acquire(l)
    \/ \E resp \in Targets : \E ok \in BOOLEAN : Probe(l, resp, ok)
    \/ \E ok \in BOOLEAN : UpdateStatus(l, ok)
    \/ \E ok \in BOOLEAN : CalculateUptime(l, ok, 0)
    \/ PublishAndRelease(l)

NextSink == StartupStep \/ PublisherStep \/ HubBroadcast

FairSink ==
    /\ \A l \in JobIds : WF_vars(LoopProgress(l))
    /\ WF_vars(HubBroadcast)

SpecSink == InitHubScenario /\ [][NextSink]_vars /\ FairSink

----------------------------------------------------------------------------
(* Creation racing with the startup scan, with a slot of the limiter for    *)
(* every loop (main.go passes 10 slots): the way a running job is replaced. *)

InitOrder ==
    /\ monitors = [m \in MonitorIds |-> NoMonitor]
    /\ nextId = 1
    /\ metrics = <<>>
    /\ now = UptimeWindowHours
    /\ InitServiceWith(MaxJobs)
    /\ InitHub

CreateStep ==
    \/ CreateMonitor
    \/ \E m \in MonitorIds : CreateStartJob(m)

NextOrder == StartupStep \/ CreateStep \/ LoopStep \/ HubBroadcast

SpecOrder == InitOrder /\ [][NextOrder]_vars

----------------------------------------------------------------------------
(* Create requests followed step by step, next to the startup scan.         *)

Requests ==
    [url : Urls, interval : RequestIntervals, timeout : RequestTimeouts]

CreateHandlerStep ==
    \/ \E r \in RequestIds : \E req \in Requests : CreateRequest(r, req)
    \/ \E r \in RequestIds : \E ok \in BOOLEAN : CreateCount(r, ok)
    \/ \E r \in RequestIds : \E ok \in BOOLEAN : CreateInsert(r, ok)
    \/ \E r \in RequestIds : CreateStart(r)

NextCreate ==
    \/ StartupStep
    \/ CreateHandlerStep
    \/ \E l \in JobIds : LoopStart(l)

SpecCreate == Init /\ [][NextCreate]_vars

----------------------------------------------------------------------------
(* Delete requests whose result the caller sees, next to creation, the      *)
(* startup scan and the loops' start.                                       *)

DeleteStep ==
    \/ \E m \in MonitorIds : DeleteStopJob(m)
    \/ \E m \in MonitorIds : \E ok \in BOOLEAN : DeleteOneReturn(m, ok)

NextDelete ==
    \/ StartupStep
    \/ CreateStep
    \/ DeleteStep
    \/ \E l \in JobIds : LoopStart(l)

SpecDelete == Init /\ [][NextDelete]_vars

----------------------------------------------------------------------------
(* Metrics requests against a store that holds Metrics of two monitors.     *)

\* times of the stored Metrics: around the edges of the largest and of the
\* default lookback, and now
CheckedAtTimes ==
    {0, 1, MaxLookbackHours - DefaultHours, MaxLookbackHours - DefaultHours + 1,
     MaxLookbackHours + 1}

StoredMetrics ==
    {Metric(m, Classify(200), t) : m \in MonitorIds, t \in CheckedAtTimes}

RECURSIVE LogsOfLength(_)
LogsOfLength(n) ==
    IF n = 0 THEN {<<>>}
    ELSE {Append(log, d) : log \in LogsOfLength(n - 1), d \in StoredMetrics}

InitMetrics ==
    /\ monitors = [m \in MonitorIds |->
                       IF m = 1 THEN ToMonitor(DefaultRequest(1)) ELSE NoMonitor]
    /\ nextId = 2
    /\ \E n \in 0..MaxLog : metrics \in LogsOfLength(n)
    /\ now = MaxLookbackHours + 1
    /\ InitService
    /\ InitHub

NextMetrics ==
    \E m \in MonitorIds : \E q \in HoursQueries :
        \E hexOk \in BOOLEAN : \E findOk \in BOOLEAN :
            \E p \in SortedDescending(Find(metrics, m, now - Lookback(q), 1)) :
                GetMetricsHandler(m, q, hexOk, findOk, p)

SpecMetrics == InitMetrics /\ [][NextMetrics]_vars

----------------------------------------------------------------------------
(* End to end: create requests, the loops they start, the hub and the       *)
(* observers, under the Go scheduler.                                       *)

\* create requests of the end-to-end scenario: one URL, a timeout of 2
\* seconds, and an interval the handler accepts
EndToEndRequests ==
    {req \in Requests : req.url = 1 /\ req.timeout = 2
                          /\ req.interval \in {-5, 5}}

CreateEndToEndStep ==
    \/ \E r \in RequestIds : \E req \in EndToEndRequests : CreateRequest(r, req)
    \/ \E r \in RequestIds : \E ok \in BOOLEAN : CreateCount(r, ok)
    \/ \E r \in RequestIds : \E ok \in BOOLEAN : CreateInsert(r, ok)
    \/ \E r \in RequestIds : CreateStart(r)

\* the first probe of loop l: the steps that wait for nothing but the
\* scheduler
FirstProbe(l) ==
    \/ LoopStart(l)
    \/ Acquire(l)
    \/ \E resp \in Targets : \E ok \in BOOLEAN : Probe(l, resp, ok)
    \/ \E ok \in BOOLEAN : UpdateStatus(l, ok)
    \/ \E ok \in BOOLEAN : CalculateUptime(l, ok, 0)
    \/ PublishAndRelease(l)

\* the hub's steps for observer c
HubFor(c) ==
    \/ HubRegister(c)
    \/ HubWelcome
    \/ HubBroadcast
    \/ HubBroadcastTo(c)

\* observer c connects and its WritePump writes what its queue holds
ObserverStep(c) ==
    \/ HandleWebSocket(c)
    \/ WritePumpMessage(c, FALSE)

NextEndToEnd ==
    \/ CreateEndToEndStep
    \/ \E l \in JobIds : FirstProbe(l)
    \/ HubFor(1)
    \/ ObserverStep(1)

FairEndToEnd ==
    /\ \A l \in JobIds : WF_vars(FirstProbe(l))
    /\ \A r \in RequestIds :
          WF_vars(\/ \E ok \in BOOLEAN : CreateCount(r, ok)
                  \/ \E ok \in BOOLEAN : CreateInsert(r, ok)
                  \/ CreateStart(r))
    /\ WF_vars(HubFor(1))
    /\ WF_vars(WritePumpMessage(1, FALSE))

SpecEndToEnd == InitOrder /\ [][NextEndToEnd]_vars /\ FairEndToEnd

----------------------------------------------------------------------------
(* Startup alone: the scan over a store that no request changes, and the    *)
(* first probes of the loops it starts.                                     *)

\* a stored monitor with the defaults, flagged active or not
StoredMonitor(m, active) ==
    [ToMonitor(DefaultRequest(m)) EXCEPT !.is_active = active]

\* stores of every mix of absent, active and inactive monitors
StartupStores ==
    {[m \in MonitorIds |->
         IF kind[m] = "absent" THEN NoMonitor
         ELSE StoredMonitor(m, kind[m] = "active")] :
        kind \in [MonitorIds -> {"absent", "active", "inactive"}]}

InitStartup ==
    /\ monitors \in StartupStores
    /\ nextId = NumMonitors + 1
    /\ metrics = <<>>
    /\ now = UptimeWindowHours
    /\ InitServiceWith(MaxJobs)
    /\ InitHub

NextStartup ==
    \/ StartupStep
    \/ \E l \in JobIds : FirstProbe(l)
    \/ HubBroadcast

SpecStartup == InitStartup /\ [][NextStartup]_vars

----------------------------------------------------------------------------
(* Observers and their pumps under the Go scheduler, fed by the first probe *)
(* of one stored monitor.                                                   *)

NextPumps ==
    \/ StartupStep
    \/ \E l \in JobIds : FirstProbe(l)
    \/ HubStep
    \/ ClientStep

\* the hub and the pumps run when they can; a read on a connection that has
\* been closed returns an error
FairPumps ==
    /\ WF_vars(HubStep)
    /\ \A c \in ClientIds :
          /\ WF_vars(connClosed[c] /\ ReadPumpError(c))
          /\ WF_vars(handleClientMessage(c))

SpecPumps == InitHubScenario /\ [][NextPumps]_vars /\ FairPumps

----------------------------------------------------------------------------
(* The probe path on every outcome of checkEndpoint, next to deletions of   *)
(* the probed monitor.                                                      *)

NextProbes ==
    \/ StartupStep
    \/ ResultSinkStep
    \/ \E m \in MonitorIds : DeleteStopJob(m)
    \/ \E m \in MonitorIds : \E ok \in BOOLEAN : DeleteOne(m, ok)
    \/ \E l \in JobIds : LoopStop(l)
    \/ HubBroadcast

SpecProbes == InitUptime /\ [][NextProbes]_vars

----------------------------------------------------------------------------
(* The loops of two stored monitors competing for the limiter, with the hub *)
(* running and one observer that may or may not drain its queue.            *)

InitLimiter ==
    /\ monitors = [m \in MonitorIds |-> StoredMonitor(m, TRUE)]
    /\ nextId = NumMonitors + 1
    /\ metrics = <<>>
    /\ now = UptimeWindowHours
    /\ InitService
    /\ InitHub

NextLimiter ==
    \/ StartupStep
    \/ PublisherStep
    \/ HubFor(1)
    \/ ObserverStep(1)

\* a runnable goroutine runs, a request ends within its timeout, and the hub
\* loop runs
FairLimiter ==
    /\ \A l \in JobIds : WF_vars(LoopProgress(l))
    /\ WF_vars(HubFor(1))

SpecLimiter == InitLimiter /\ [][NextLimiter]_vars /\ FairLimiter

----------------------------------------------------------------------------
(* Replacement of a running job with a store whose writes succeed, and a    *)
(* slot of the limiter for every loop.                                      *)

\* the loops' steps with InsertOne and UpdateOne succeeding
WorkingStoreStep ==
    \/ \E l \in JobIds : TickerFire(l)
    \/ \E l \in JobIds : LoopStart(l)
    \/ \E l \in JobIds : LoopTick(l)
    \/ \E l \in JobIds : LoopStop(l)
    \/ \E l \in JobIds : Acquire(l)
    \/ \E l \in JobIds : \E resp \in Targets : Probe(l, resp, TRUE)
    \/ \E l \in JobIds : UpdateStatus(l, TRUE)
    \/ \E l \in JobIds : \E ok \in BOOLEAN : CalculateUptime(l, ok, 0)
    \/ \E l \in JobIds : PublishAndRelease(l)

NextCache == StartupStep \/ CreateStep \/ WorkingStoreStep \/ HubBroadcast

SpecCache == InitOrder /\ [][NextCache]_vars

----------------------------------------------------------------------------
(* Create requests racing for a URL, over a database whose unique index on  *)
(* url was created at startup or was not.                                   *)

InitUnique ==
    /\ monitors = [m \in MonitorIds |-> NoMonitor]
    /\ nextId = 1
    /\ metrics = <<>>
    /\ now = UptimeWindowHours
    /\ InitServiceOn(MaxJobs, BOOLEAN)
    /\ InitHub

\* requests that differ in their URL only
UrlRequests ==
    {req \in Requests : req.interval = MinimumInterval /\ req.timeout = 2}

NextUnique ==
    \/ \E r \in RequestIds : \E req \in UrlRequests : CreateRequest(r, req)
    \/ \E r \in RequestIds : \E ok \in BOOLEAN : CreateCount(r, ok)
    \/ \E r \in RequestIds : \E ok \in BOOLEAN : CreateInsert(r, ok)
    \/ \E r \in RequestIds : CreateStart(r)
    \/ \E l \in JobIds : LoopStart(l)

SpecUnique == InitUnique /\ [][NextUnique]_vars

----------------------------------------------------------------------------
(* The events of one loop on their way through the hub to the observers,    *)
(* with room for two events in each queue and a store whose inserts succeed. *)

InitOrdered ==
    /\ monitors = [m \in MonitorIds |->
                       IF m = 1 THEN ToMonitor(DefaultRequest(1)) ELSE NoMonitor]
    /\ nextId = 2
    /\ metrics = <<>>
    /\ now = UptimeWindowHours
    /\ InitService
    /\ InitHubOn(OrderCap, OrderCap)

\* the loop of the stored monitor, every Metric inserted
OrderedPublisherStep ==
    \/ \E l \in JobIds : TickerFire(l)
    \/ \E l \in JobIds : LoopStart(l)
    \/ \E l \in JobIds : LoopTick(l)
    \/ \E l \in JobIds : Acquire(l)
    \/ \E l \in JobIds : \E resp \in Targets : Probe(l, resp, TRUE)
    \/ \E l \in JobIds : UpdateStatus(l, TRUE)
    \/ \E l \in JobIds : CalculateUptime(l, TRUE, 0)
    \/ \E l \in JobIds : PublishAndRelease(l)

NextOrdered == StartupStep \/ OrderedPublisherStep \/ HubStep \/ ClientStep

SpecOrdered == InitOrdered /\ [][NextOrdered]_vars

\* the outbound pump of c runs when it can: it receives from its queue, or
\* finds it closed
WritePumpProgress(c) ==
    \/ \E werr \in BOOLEAN : WritePumpMessage(c, werr)
    \/ WritePumpClosed(c)

\* the hub and both pumps of every observer run when they can
FairDrain ==
    /\ FairPumps
    /\ \A c \in ClientIds : WF_vars(WritePumpProgress(c))

SpecDrain == InitHubScenario /\ [][NextPumps]_vars /\ FairDrain

----------------------------------------------------------------------------
(* Properties.                                                             *)

\* positions of a loop inside checkEndpoint
InCheckEndpoint == {"acquire", "http", "update", "uptime", "broadcast"}
\* positions of a loop that holds a slot of the limiter
HoldsSlot == {"http", "update", "uptime", "broadcast"}

\* indices of the Metrics of monitor m in a log
MetricsOf(log, m) == {i \in 1..Len(log) : log[i].monitor_id = m}

\* C1: no two Scheduler Loops of one monitor id have a probe (checkEndpoint)
\* in progress in the same state.
C1_OneLoopProbing ==
    \A l1 \in JobIds : \A l2 \in JobIds :
        (l1 # l2 /\ jobMon[l1] = jobMon[l2])
            => ~(pc[l1] \in InCheckEndpoint /\ pc[l2] \in InCheckEndpoint)

\* C2: the probes that have acquired a slot of the limiter and not released
\* it are never more than its capacity.
C2_AtMostNInFlight ==
    Cardinality({l \in JobIds : pc[l] \in HoldsSlot}) <= maxConcurrent

\* C2 witness: loops of two monitors, the limiter full with a request that has
\* not returned, and the other loop waiting for a slot.
C2_Witness ==
    \E l1 \in JobIds : \E l2 \in JobIds :
        /\ jobMon[l1] # jobMon[l2]
        /\ pc[l1] = "http"
        /\ pc[l2] = "acquire"
        /\ Cardinality({l \in JobIds : pc[l] \in HoldsSlot}) = maxConcurrent

\* C3: once DeleteMonitor(id) has returned nil, no step appends a Metric
\* with that monitor id.
C3_NoMetricAfterDelete ==
    [][\A m \in MonitorIds :
          deletedOK[m] => MetricsOf(metrics', m) = MetricsOf(metrics, m)]_vars

\* the step of the range loop that reaches observer c: enqueue or evict c,
\* and nothing else
C4_BroadcastStep ==
    \A c \in ClientIds :
        HubBroadcastTo(c) =>
            /\ IF Len(Send[c]) < SendCap
                  THEN /\ Send'[c] = Append(Send[c], hmsg)
                       /\ c \in Clients'
                       /\ closedBy'[c] = <<>>
                  ELSE /\ c \notin Clients'
                       /\ closedBy'[c] = <<"evict">>
                       /\ Send'[c] = Send[c]
            /\ \A d \in ClientIds \ {c} :
                  /\ (d \in Clients') = (d \in Clients)
                  /\ Send'[d] = Send[d]
                  /\ closedBy'[d] = closedBy[d]
            /\ btodo' = btodo \ {c}

\* the range loop starts with every registered observer to reach and ends
\* only when none is left
C4_BroadcastLoop ==
    /\ HubBroadcast => (btodo' = Clients /\ (Clients # {} => hpc' = "broadcast"))
    /\ (hpc = "broadcast" /\ hpc' = "select") => btodo' = {}

\* C4: when the hub processes one broadcast event, the range loop reaches
\* every observer registered at that moment once; the event is enqueued once
\* to an observer whose queue has room, and it stays registered; an observer
\* whose queue is full is evicted; an eviction changes neither the membership
\* nor the queue of any other observer, and the observers not yet reached
\* stay registered.
C4_Broadcast ==
    /\ [](hpc = "broadcast" => (btodo # {} /\ btodo \subseteq Clients))
    /\ [][C4_BroadcastStep /\ C4_BroadcastLoop]_vars

\* C4 witness: one observer evicted by a broadcast with the welcome event
\* still in its full queue, the other registered with the event in its queue.
C4_Witness ==
    \E c \in ClientIds : \E d \in ClientIds :
        /\ c # d
        /\ closedBy[c] = <<"evict">>
        /\ Send[c] = <<ConnectionEstablished>>
        /\ d \in Clients
        /\ Send[d] # <<>>
        /\ Send[d][1].type = "metric_update"
        /\ hpc = "select"

\* C5: recordMetric never waits for the hub: whenever a loop is at the send
\* to the hub's inbound queue, the step is enabled.
C5_PublishNeverBlocks ==
    \A l \in JobIds : pc[l] = "broadcast" => ENABLED PublishAndRelease(l)

\* the steps a loop may take out of "start" and "select", and into a probe
C6_Step ==
    \A l \in JobIds :
        /\ (pc[l] = "start" /\ pc'[l] # "start")
              => (pc'[l] = "acquire" /\ tickerC'[l] = tickerC[l])
        /\ (tickerC[l] /\ ~tickerC'[l] /\ pc'[l] # "stopped")
              => (pc[l] = "select" /\ pc'[l] = "acquire")
        /\ (pc[l] # "acquire" /\ pc'[l] = "acquire")
              => \/ pc[l] = "start"
                 \/ pc[l] = "select" /\ tickerC[l] /\ ~tickerC'[l]
        /\ (pc[l] = "select" /\ pc'[l] # "select")
              => pc'[l] \in {"acquire", "stopped"}

C7_MetricOfStoredMonitor ==
    [][Len(metrics') > Len(metrics)
          => monitors[metrics'[Len(metrics')].monitor_id].exists]_vars

\* a step of the Register, Unregister or Broadcast case of Run
C8_HubStepOf ==
    \/ \E c \in ClientIds : HubRegister(c)
    \/ HubWelcome
    \/ \E c \in ClientIds : HubUnregister(c)
    \/ \E c \in ClientIds : HubBroadcastTo(c)

\* a step of the upgrade handler, of a pump or of the scheduler loop
C8_OtherStep ==
    \/ \E c \in ClientIds : HandleWebSocket(c)
    \/ \E c \in ClientIds : \E t \in MessageTypes : ReadPumpMessage(c, t)
    \/ \E c \in ClientIds : ReadPumpError(c)
    \/ \E c \in ClientIds : handleClientMessage(c)
    \/ \E c \in ClientIds : \E werr \in BOOLEAN : WritePumpMessage(c, werr)
    \/ \E c \in ClientIds : WritePumpClosed(c)
    \/ \E c \in ClientIds : \E werr \in BOOLEAN : WritePumpPing(c, werr)
    \/ PublisherStep

\* C8: a step that changes hub.Clients is a step of the hub's Run loop (its
\* Register, Unregister or Broadcast case); HandleWebSocket, ReadPump,
\* WritePump, handleClientMessage and recordMetric leave the set unchanged.
C8_OnlyHubMutatesClients ==
    [][/\ Clients' # Clients => C8_HubStepOf
       /\ C8_OtherStep => Clients' = Clients]_vars

\* C8 witness: the hub has added one observer and removed another while the
\* Result Sink has recorded a probe and a pump is handling a ping.
C8_Witness ==
    /\ \E c \in ClientIds : c \in Clients /\ rpc[c] = "ping"
    /\ \E d \in ClientIds : closedBy[d] # <<>>
    /\ metrics # <<>>

\* an Unregister request for an observer not in the set changes nothing
C9_UnregisterNoOp ==
    \A c \in ClientIds :
        (HubUnregister(c) /\ c \notin Clients)
            => (Clients' = Clients /\ closedBy' = closedBy /\ Send' = Send)

\* an observer whose queue was closed is not in the set after any step
C9_RemovedOnce ==
    \A c \in ClientIds : (closedBy[c] # <<>>) => c \notin Clients'

\* a queue is closed at most once, and exactly when its observer was removed
C9_ClosedOnce ==
    \A c \in ClientIds :
        /\ Len(closedBy[c]) <= 1
        /\ (closedBy[c] # <<>>)
              = (c \notin Clients /\ rpc[c] \notin {"none", "register"})

\* C9: an Unregister request for an observer that is not in the set changes
\* neither the set nor any queue; over any sequence of Unregister requests
\* and evictions an observer's queue is closed at most once, it is closed
\* exactly when the observer has been removed, and a removed observer never
\* returns to the set.
C9_UnregisterIdempotent ==
    /\ []C9_ClosedOnce
    /\ [][C9_UnregisterNoOp /\ C9_RemovedOnce]_vars

\* C9 witness: an observer was evicted, and the Unregister request its
\* ReadPump sent afterwards has been processed.
C9_Witness ==
    \E c \in ClientIds : closedBy[c] = <<"evict">> /\ rpc[c] = "done"

\* the samples of monitor m in the trailing window, and the "down" ones
WindowSamples(m) ==
    {i \in MetricsOf(metrics, m) : metrics[i].checked_at >= now - UptimeWindowHours}
WindowDown(m) == {i \in WindowSamples(m) : metrics[i].status = "down"}

\* u is (total - down) / total * 100 over the window of m, or 100 if it is empty
IsWindowUptime(u, m) ==
    LET total == Cardinality(WindowSamples(m))
        down == Cardinality(WindowDown(m))
    IN IF total = 0 THEN u = <<100, 1>>
       ELSE u[1] * total = (total - down) * 100 * u[2]

\* the update event a step has enqueued to the hub
Published == Broadcast'[Len(Broadcast')]

\* C10 as stated: the uptime computed for an update event is
\* (total - down) / total * 100 over the monitor's Metrics in the trailing
\* window, and 100 when the window holds none.
C10_UptimeAlwaysOfWindow ==
    [][\A l \in JobIds :
          (pc[l] = "uptime" /\ pc'[l] = "broadcast")
              => IsWindowUptime(upt'[l], jobMon[l])]_vars

\* the window samples of m a cursor that fails cut documents early delivers
DeliveredSamples(m, cut) ==
    {i \in WindowSamples(m) :
        Cardinality({j \in WindowSamples(m) : j > i}) >= cut}

\* u is (total - down) / total * 100 over the delivered samples, or 100 if none
IsDeliveredUptime(u, m, cut) ==
    LET total == Cardinality(DeliveredSamples(m, cut))
        down == Cardinality(DeliveredSamples(m, cut) \cap WindowDown(m))
    IN IF total = 0 THEN u = <<100, 1>>
       ELSE u[1] * total = (total - down) * 100 * u[2]

\* C10 amended: the uptime carried in an update event is the one computed for
\* it; it is (total - down) / total * 100 over the monitor's Metrics in the
\* trailing window when the query for them succeeds and its cursor is read
\* to the end, and 100 when the window holds no sample; it is 100 when the
\* query fails, and when the cursor fails on the way it is the same formula
\* over the samples read until then (100 if none was read).
C10_UptimeOfWindowOrFailOpen ==
    [][\A l \in JobIds :
          /\ \A ok \in BOOLEAN : \A cut \in 0..MaxCut :
                CalculateUptime(l, ok, cut)
                    => IF ~ok THEN upt'[l] = <<100, 1>>
                       ELSE IF cut = 0 THEN IsWindowUptime(upt'[l], jobMon[l])
                       ELSE IsDeliveredUptime(upt'[l], jobMon[l], cut)
          /\ PublishAndRelease(l)
                => /\ Published.uptime_percentage = upt[l]
                   /\ Published.monitor_id = jobMon[l]
                   /\ Published.type = "metric_update"]_vars

\* C10 witness: an event is about to carry 80 for a window of 8 "up" and
\* 2 "down" samples.
C10_Witness ==
    \E l \in JobIds :
        /\ pc[l] = "broadcast"
        /\ upt[l] = <<80, 1>>
        /\ Cardinality(WindowSamples(jobMon[l])) = 10
        /\ Cardinality(WindowDown(jobMon[l])) = 2

\* C11: the probe of a loop hands to recordMetric, and recordMetric stores,
\* status down, code 0 and an error for a request that cannot be built or
\* gets no response; status down, the code and no error for a response with
\* code >= 400; status up, the code and no error for every other response.
C11_ClassificationExact ==
    [][\A l \in JobIds : \A resp \in Responses : \A ok \in BOOLEAN :
          Probe(l, resp, ok)
              => /\ res'[l] =
                      IF resp = BuildError \/ resp = TransportError
                          THEN [status |-> "down", status_code |-> 0, error |-> TRUE]
                      ELSE IF resp >= 400
                          THEN [status |-> "down", status_code |-> resp, error |-> FALSE]
                      ELSE [status |-> "up", status_code |-> resp, error |-> FALSE]
                 /\ ok => /\ Len(metrics') = Len(metrics) + 1
                          /\ metrics'[Len(metrics')].status = res'[l].status
                          /\ metrics'[Len(metrics')].status_code = res'[l].status_code
                          /\ metrics'[Len(metrics')].error = res'[l].error]_vars

\* C11 witness: a probe answered with code 400 has been classified down,
\* with the code and without an error, and stored so.
C11_Witness ==
    \E l \in JobIds :
        /\ pc[l] = "update"
        /\ res[l] = [status |-> "down", status_code |-> 400, error |-> FALSE]
        /\ metrics # <<>>
        /\ metrics[Len(metrics)].status_code = 400
        /\ metrics[Len(metrics)].status = "down"

\* the steps of the Result Sink after a failed insert or a failed update,
\* and the order of its steps whatever the store answers
C12_Step ==
    \A l \in JobIds :
        /\ \A resp \in Targets :
              Probe(l, resp, FALSE)
                  => (pc'[l] = "update" /\ metrics' = metrics
                        /\ res'[l] = Classify(resp) /\ semaphore' = semaphore)
        /\ UpdateStatus(l, FALSE)
              => (pc'[l] = "uptime" /\ monitors' = monitors
                    /\ res' = res /\ semaphore' = semaphore)
        /\ (pc[l] = "update" /\ pc'[l] # "update") => pc'[l] = "uptime"
        /\ (pc[l] = "uptime" /\ pc'[l] # "uptime") => pc'[l] = "broadcast"
        /\ (pc[l] = "broadcast" /\ pc'[l] # "broadcast")
              => /\ pc'[l] = "select"
                 /\ Broadcast' = Append(Broadcast,
                                        MetricUpdate(jobMon[l], res[l], upt[l]))
                 /\ semaphore' = semaphore - 1

\* C12: a failed insert of the Metric and a failed status update leave the
\* loop in the Result Sink with its slot; from there the remaining steps run
\* in order whatever the store answers, the update event is enqueued to the
\* hub, the slot is released, the loop is back in its wait, and a tick that
\* is pending there starts the next probe.
C12_StoreFailureDoesNotAbort ==
    /\ [][C12_Step]_vars
    /\ \A l \in JobIds : (pc[l] = "http") ~> (pc[l] = "select")
    /\ \A l \in JobIds : (pc[l] = "select" /\ tickerC[l]) ~> (pc[l] = "acquire")

\* C12 witness: no Metric was stored and the cached status was not updated,
\* yet the event is in the hub's queue, no slot is held and the loop has
\* taken the next tick.
C12_Witness ==
    \E l \in JobIds :
        /\ pc[l] = "acquire"
        /\ ticks = 1
        /\ ~tickerC[l]
        /\ metrics = <<>>
        /\ monitors[jobMon[l]].current_status = "unknown"
        /\ Len(Broadcast) = 1
        /\ semaphore = 0

\* C13: events are enqueued in the order the Metrics were appended: when a
\* loop enqueues the event of a probe whose Metric it appended, no other loop
\* of the same monitor still holds the event of a Metric appended earlier.
C13_SameOrder ==
    [][\A l2 \in JobIds :
          (PublishAndRelease(l2) /\ ins[l2] # 0)
              => ~\E l1 \in JobIds \ {l2} :
                    /\ jobMon[l1] = jobMon[l2]
                    /\ ins[l1] # 0
                    /\ ins[l1] < ins[l2]]_vars

\* C14: when a job of a monitor is replaced, the stop channel of the old loop
\* is closed before the new loop begins its first probe: whenever a loop is
\* past its start, and at the step in which it begins its first probe, the
\* stop channel of every loop spawned earlier for the same monitor is closed.
C14_CancelBeforeFirstProbe ==
    /\ [](\A l1 \in JobIds : \A l2 \in JobIds :
             (l1 < l2 /\ jobMon[l1] = jobMon[l2] /\ pc[l2] \notin {"none", "start"})
                 => stopClosed[l1])
    /\ [][\A l1 \in JobIds : \A l2 \in JobIds :
             (l1 < l2 /\ jobMon[l1] = jobMon[l2] /\ LoopStart(l2))
                 => stopClosed[l1]]_vars

\* C14 witness: a replaced loop whose stop channel is closed is still inside
\* a probe while its successor has begun its first probe.
C14_Witness ==
    \E l1 \in JobIds : \E l2 \in JobIds :
        /\ l1 < l2
        /\ jobMon[l1] = jobMon[l2]
        /\ stopClosed[l1]
        /\ pc[l1] = "http"
        /\ pc[l2] = "acquire"
        /\ metrics = <<>>

\* a create request whose handler has answered with an error left no trace
CreateRefusedClean(r) ==
    (creq[r].pc = "done" /\ creq[r].code # StatusCreated) => creq[r].id = 0

\* the step in which MonitorService.CreateMonitor counts the documents of a
\* URL that a stored monitor holds
CountsHeldUrl(r, ok) == CreateCount(r, ok) /\ UrlExists(creq[r].url)

\* C15 as stated: createMonitor with a URL already held by a stored monitor
\* always ends in the duplicate-URL error, answered as a conflict, and
\* stores no monitor and starts no job.
C15_DuplicateAlwaysConflict ==
    [][\A r \in RequestIds : \A ok \in BOOLEAN :
          CountsHeldUrl(r, ok) =>
              /\ creq'[r].pc = "done"
              /\ creq'[r].code = StatusConflict
              /\ monitors' = monitors
              /\ activeJobs' = activeJobs]_vars

\* C15, amended: createMonitor with a URL already held by a stored monitor
\* ends in the duplicate-URL error, answered as a conflict, whenever the
\* count of the URL succeeds, and in the store's error, answered as an
\* internal error, when the count fails; in both cases it stores no monitor
\* and starts no job, and the request never gets a monitor id.
C15_DuplicateConflictWhenCounted ==
    /\ [][\A r \in RequestIds : \A ok \in BOOLEAN :
             CountsHeldUrl(r, ok) =>
                 /\ creq'[r].pc = "done"
                 /\ creq'[r].code =
                        (IF ok THEN StatusConflict ELSE StatusInternalServerError)
                 /\ monitors' = monitors
                 /\ activeJobs' = activeJobs
                 /\ nextJob' = nextJob]_vars
    /\ [](\A r \in RequestIds : CreateRefusedClean(r))

\* a request for a held URL has been answered with a conflict, and another
\* with an internal error
C15_Witness ==
    /\ \E r \in RequestIds :
          /\ creq[r].pc = "done"
          /\ creq[r].code = StatusConflict
          /\ UrlExists(creq[r].url)
          /\ creq[r].id = 0
    /\ \E r \in RequestIds :
          /\ creq[r].pc = "done"
          /\ creq[r].code = StatusInternalServerError
          /\ UrlExists(creq[r].url)

\* the registry and the stop signals are as they were
RegistryUntouched ==
    /\ activeJobs' = activeJobs
    /\ stopClosed' = stopClosed
    /\ UNCHANGED <<nextJob, jobMon, jobInterval, pc>>

\* the job-stop step of DeleteMonitor for an id without a job
StopsNoJob(m) == DeleteStopJob(m) /\ activeJobs[m] = NoJob

\* C16 as stated: deleteMonitor of an id that is not in the store always
\* returns the not-found error and leaves the store unchanged; without a job
\* for the id, the job-stop step changes nothing in the registry and closes
\* no signal.
C16_AbsentAlwaysNotFound ==
    [][\A m \in MonitorIds :
          /\ \A ok \in BOOLEAN :
                (DeleteOneReturn(m, ok) /\ ~monitors[m].exists) =>
                    /\ delErr'[m] = delErr[m] \cup {"monitor not found"}
                    /\ monitors' = monitors
          /\ StopsNoJob(m) => RegistryUntouched]_vars

\* C16, amended: deleteMonitor of an id that is not in the store returns
\* the not-found error when the store's delete call succeeds and the store's
\* error when it fails, never nil, and leaves the store unchanged either
\* way; without a job for the id, the job-stop step changes nothing in the
\* registry and closes no signal.
C16_AbsentNotFoundWhenDeleteRuns ==
    [][\A m \in MonitorIds :
          /\ \A ok \in BOOLEAN :
                (DeleteOneReturn(m, ok) /\ ~monitors[m].exists) =>
                    /\ delErr'[m] = delErr[m] \cup
                          {IF ok THEN "monitor not found" ELSE "store error"}
                    /\ monitors' = monitors
                    /\ deletedOK' = deletedOK
          /\ StopsNoJob(m) => RegistryUntouched]_vars

\* deletes of an id that was never stored and has no job have returned
\* not-found and the store's error, with the job of another monitor registered
C16_Witness ==
    \E m \in MonitorIds :
        /\ m >= nextId
        /\ delErr[m] = {"monitor not found", "store error"}
        /\ activeJobs[m] = NoJob
        /\ \E j \in MonitorIds : activeJobs[j] # NoJob

\* C17: every Monitor produced from a creation request, whatever interval
\* and timeout the request carries (zero, negative or positive), has a check
\* interval of at least 1 second, so that no Scheduler Loop is ever started
\* with a non-positive interval.
C17_IntervalAtLeastOne ==
    /\ \A m \in MonitorIds : monitors[m].exists => monitors[m].interval >= 1
    /\ \A l \in JobIds : pc[l] # "none" => jobInterval[l] >= 1
    /\ ~panicked

\* C18: a monitor's check interval has a minimum of 5 seconds: no monitor
\* created through the creation request ends up stored or scheduled with an
\* interval below 5.
C18_IntervalAtLeastMinimum ==
    /\ \A m \in MonitorIds :
          monitors[m].exists => monitors[m].interval >= MinimumInterval
    /\ \A l \in JobIds : pc[l] # "none" => jobInterval[l] >= MinimumInterval

\* the lookback a metrics request for hours query q is to use
ExpectedLookback(q) ==
    IF q.kind = "number" /\ q.n \in 1..MaxLookbackHours THEN q.n
    ELSE DefaultHours

\* C19: getMetrics is bounded: for every requested hours value the lookback
\* used is between 1 and 168 hours, an unparsable or out-of-range value
\* being replaced by 24, and at most the row limit of Metrics are returned,
\* most recent first, all of them stored Metrics of the requested monitor id.
C19_GetMetricsBounded ==
    getm.code \in {StatusOK, StatusInternalServerError} =>
        /\ getm.hours \in 1..MaxLookbackHours
        /\ getm.hours = ExpectedLookback(getm.query)
        /\ Len(getm.rows) <= MaxRows
        /\ \A i \in 1..Len(getm.rows) :
              /\ getm.rows[i].monitor_id = getm.id
              /\ \E k \in 1..Len(metrics) : metrics[k] = getm.rows[i]
        /\ \A i \in 1..Len(getm.rows) : \A j \in 1..Len(getm.rows) :
              i < j => getm.rows[i].checked_at >= getm.rows[j].checked_at

\* a metrics request was answered with as many rows as the limit allows, of
\* different times, from a store that holds more rows of the monitor in the
\* lookback and rows of another monitor
C19_Witness ==
    /\ getm.code = StatusOK
    /\ Len(getm.rows) = MaxRows
    /\ Len(Find(metrics, getm.id, now - getm.hours, 1)) > MaxRows
    /\ getm.rows[1].checked_at > getm.rows[MaxRows].checked_at
    /\ getm.hours = DefaultHours
    /\ getm.query.kind = "number"
    /\ getm.query.n > MaxLookbackHours
    /\ \E k \in 1..Len(metrics) : metrics[k].monitor_id # getm.id

\* the store holds a Metric of monitor m with status up or down
HasMetric(m) ==
    \E k \in 1..Len(metrics) :
        metrics[k].monitor_id = m /\ metrics[k].status \in {"up", "down"}

\* the queue of observer c holds a metric_update event of monitor m
HasEvent(c, m) ==
    \E k \in 1..Len(Send[c]) :
        Send[c][k].type = "metric_update" /\ Send[c][k].monitor_id = m

\* after a monitor is created, a Metric of it eventually exists
CreatedLeadsToMetric ==
    \A r \in RequestIds : \A m \in MonitorIds :
        (creq[r].code = StatusCreated /\ creq[r].id = m) ~> HasMetric(m)

\* an observer registered when a probe has completed eventually has the
\* event of that probe in its queue, unless the hub removes it (its queue
\* was saturated)
ProbeLeadsToEvent ==
    \A c \in ClientIds : \A l \in JobIds : \A m \in MonitorIds :
        (c \in Clients /\ pc[l] = "broadcast" /\ jobMon[l] = m)
            ~> (HasEvent(c, m) \/ c \notin Clients)

\* C20: after a monitor is created, a Metric with status up or down for that
\* monitor eventually exists, and every observer that was registered before
\* that probe completed and whose queue is not saturated eventually has a
\* metric_update event with the matching monitor id enqueued to it.
C20_CreatedLeadsToMetricAndEvent ==
    CreatedLeadsToMetric /\ ProbeLeadsToEvent

\* the Scheduler Loops spawned for monitor m
LoopsOf(m) == {l \in JobIds : pc[l] # "none" /\ jobMon[l] = m}

\* C21: at startup the registry starts exactly one Scheduler Loop for each
\* stored monitor flagged active and none for a monitor flagged inactive (or
\* absent); if loading the monitors fails, no loop is started.
C21_StartupOneLoopPerActive ==
    \A m \in MonitorIds :
        /\ Cardinality(LoopsOf(m)) <=
              (IF monitors[m].exists /\ monitors[m].is_active THEN 1 ELSE 0)
        /\ scanPc = "done" =>
              Cardinality(LoopsOf(m)) =
                  (IF monitors[m].exists /\ monitors[m].is_active THEN 1 ELSE 0)
        /\ scanPc = "done" /\ LoopsOf(m) # {} => activeJobs[m] \in LoopsOf(m)
        /\ scanPc = "failed" => LoopsOf(m) = {} /\ activeJobs[m] = NoJob

\* the scan has finished over a store with an active and an inactive
\* monitor, with one loop in all
C21_Witness ==
    /\ scanPc = "done"
    /\ \E m \in MonitorIds : monitors[m].exists /\ ~monitors[m].is_active
    /\ \E m \in MonitorIds : Cardinality(LoopsOf(m)) = 1
    /\ nextJob = 2

\* C22: once the stop channel of a loop has been closed, the loop starts no
\* further probe: neither its immediate probe, when it has not begun yet,
\* nor a probe for a tick pending at its select.
C22_NoProbeAfterCancel ==
    [][\A l \in JobIds :
          (stopClosed[l] /\ pc[l] \in {"start", "select"})
              => pc'[l] # "acquire"]_vars

\* C23: every stop channel is closed at most once over any sequence of
\* start, replace, stop and delete operations: a channel the registry holds,
\* the only kind startMonitorJob and stopMonitorJob close, is open and held
\* for one id only, and a closed channel stays closed and unregistered.  Its
\* closing is observed by exactly the loop that waits on it: a loop returns
\* only from its select, on its own closed channel.
C23_StopChannelClosedOnce ==
    /\ [](\A m \in MonitorIds :
             activeJobs[m] # NoJob =>
                 /\ ~stopClosed[activeJobs[m]]
                 /\ jobMon[activeJobs[m]] = m
                 /\ \A k \in MonitorIds : activeJobs[k] = activeJobs[m] => k = m)
    /\ [][\A l \in JobIds :
             /\ stopClosed[l] => stopClosed'[l]
             /\ (pc[l] # "stopped" /\ pc'[l] = "stopped" /\ ~panicked')
                    => (stopClosed[l] /\ pc[l] = "select")]_vars

\* the stop channel of a replaced loop and the one of its successor, closed
\* by a delete, are both closed, and the replaced loop has returned
C23_Witness ==
    \E l1 \in JobIds : \E l2 \in JobIds :
        /\ l1 < l2
        /\ jobMon[l1] = jobMon[l2]
        /\ stopClosed[l1]
        /\ stopClosed[l2]
        /\ pc[l1] = "stopped"
        /\ activeJobs[jobMon[l1]] = NoJob

\* C24: the hub's loop never suspends on an observer: in every reachable
\* state of the running process, whatever the observers' queues and pumps
\* are, a hub that is enqueuing the welcome event or the events of a
\* broadcast can take its next step, the last of which brings it back to its
\* select, and a hub at its select can take every request that is pending
\* on Register, Unregister or Broadcast.
C24_HubNeverSuspends ==
    Running =>
        /\ hpc = "welcome" => hcur \in ClientIds /\ ENABLED HubWelcome
        /\ hpc = "broadcast" =>
              /\ btodo # {}
              /\ \A c \in btodo : ENABLED HubBroadcastTo(c)
        /\ hpc = "select" =>
              /\ btodo = {}
              /\ \A c \in Register : ENABLED HubRegister(c)
              /\ \A c \in Unregister : ENABLED HubUnregister(c)
              /\ Broadcast # <<>> => ENABLED HubBroadcast

\* the hub is in the middle of a broadcast, about to enqueue to an observer
\* whose queue is full, while another observer waits on Unregister
C24_Witness ==
    /\ Running
    /\ hpc = "broadcast"
    /\ \E c \in btodo : ~SendReady(c)
    /\ Unregister # {}

\* the WritePump of c returns in this step
WritePumpReturns(c) == wpc[c] = "write" /\ wpc'[c] = "done"

C26_Step ==
    \A l \in JobIds :
        /\ (res[l].status = "down" /\ pc[l] = "update" /\ pc'[l] # "update")
              => pc'[l] = "uptime"
        /\ (res[l].status = "down" /\ pc[l] = "uptime" /\ pc'[l] # "uptime")
              => pc'[l] = "broadcast"
        /\ (res[l].status = "down" /\ pc[l] = "broadcast"
                /\ pc'[l] # "broadcast")
              => /\ pc'[l] = "select"
                 /\ tickerC'[l] = tickerC[l]
                 /\ stopClosed'[l] = stopClosed[l]
        /\ (pc[l] = "select" /\ pc'[l] # "select")
              => \/ pc'[l] = "acquire" /\ tickerC[l] /\ ~tickerC'[l]
                 \/ pc'[l] = "stopped" /\ stopClosed[l]

\* C26: a probe classified down runs the Result Sink to its end and leaves
\* the loop in its wait with its ticker and its stop channel as they were;
\* the loop leaves the wait only for a probe that consumes a tick or because
\* its stop channel is closed; a tick pending in the wait can always be
\* taken, and a loop whose stop channel is open has not returned.
C26_DownProbeKeepsLoopTicking ==
    /\ [][C26_Step]_vars
    /\ [](\A l \in JobIds :
            /\ (Running /\ pc[l] = "select" /\ tickerC[l]) => ENABLED LoopTick(l)
            /\ (Running /\ pc[l] = "stopped") => stopClosed[l])

\* C26 witness: a loop that is not cancelled stored a Metric classified down
\* in its immediate probe, went back to its wait, and has taken the tick that
\* starts its next probe.
C26_Witness ==
    \E l \in JobIds :
        /\ pc[l] = "acquire"
        /\ ~stopClosed[l]
        /\ ticks = 1
        /\ ~tickerC[l]
        /\ res[l] = NoResult
        /\ MetricsOf(metrics, jobMon[l]) # {}
        /\ \A i \in MetricsOf(metrics, jobMon[l]) : metrics[i].status = "down"

\* the outcomes checkEndpoint can hand to recordMetric
Outcomes == {Classify(resp) : resp \in Responses}

\* the steps that touch the Metric log
C27_Step ==
    /\ \A l \in JobIds :
          (pc[l] = "http" /\ pc'[l] # "http")
              => /\ pc'[l] = "update"
                 /\ res'[l] \in Outcomes
                 /\ metrics' \in {metrics,
                                  Append(metrics, Metric(jobMon[l], res'[l], now))}
                 /\ ins'[l] = IF metrics' = metrics THEN 0 ELSE Len(metrics')
    /\ \A l \in JobIds : \A resp \in Responses :
          Probe(l, resp, TRUE)
              => metrics' = Append(metrics,
                                   Metric(jobMon[l], Classify(resp), now))
    /\ \A l \in JobIds :
          (pc[l] \in {"update", "uptime", "broadcast"} /\ pc'[l] # pc[l])
              => (res'[l] \in {res[l], NoResult} /\ metrics' = metrics)
    /\ metrics' # metrics
          => /\ Len(metrics') = Len(metrics) + 1
             /\ SubSeq(metrics', 1, Len(metrics)) = metrics
             /\ \E l \in JobIds : pc[l] = "http" /\ pc'[l] = "update"

\* C27: the request of a probe ends in one step that hands one outcome to
\* recordMetric, whichever of the three exits of checkEndpoint it takes; with
\* an insert that succeeds this step appends exactly the Metric of that
\* outcome, the rest of recordMetric appends nothing and keeps the outcome,
\* and every step that changes the log appends one Metric to it and leaves
\* the Metrics that were there as they were.
C27_OneMetricPerProbe == [][C27_Step]_vars

\* C27 witness: the monitor's Metric was appended for a request that could
\* not be built, and the monitor has been deleted since with the Metric
\* still in the log.
C27_Witness ==
    \E l \in JobIds :
        /\ pc[l] = "select"
        /\ ~monitors[jobMon[l]].exists
        /\ Len(metrics) > 0
        /\ metrics[Len(metrics)] = Metric(jobMon[l], Classify(BuildError), now)

\* the steps of the hub's Register case
C28_Step ==
    /\ \A c \in ClientIds :
          (c \notin Clients /\ c \in Clients')
              => /\ rpc[c] = "register"
                 /\ hpc = "select" /\ hpc' = "welcome" /\ hcur' = c
                 /\ Clients' = Clients \cup {c}
    /\ (hpc = "welcome" /\ hpc' = "welcome") => Clients' = Clients
    /\ (hpc = "welcome" /\ hpc' # "welcome")
          => /\ hpc' = "select"
             /\ IF SendReady(hcur)
                    THEN /\ Send' = [Send EXCEPT ![hcur] =
                                         Append(@, ConnectionEstablished)]
                         /\ Clients' = Clients
                         /\ closedBy' = closedBy
                         /\ connClosed' = connClosed
                    ELSE /\ Send' = Send
                         /\ Clients' = Clients \ {hcur}
                         /\ closedBy' = [closedBy EXCEPT ![hcur] = <<"evict">>]
                         /\ connClosed'[hcur]

\* C28: an observer enters the observer set only by the hub's receive from
\* Register; until the hub has dealt with the welcome message the observer
\* stays in the set with its queue open, and the hub's next step either
\* enqueues connection_established to that queue or, when the queue is full,
\* removes the observer, closes its queue and closes its connection.
C28_RegisterWelcomesOrEvicts ==
    /\ [][C28_Step]_vars
    /\ [](hpc = "welcome"
            => /\ hcur \in Clients
               /\ ~SendClosed(hcur)
               /\ (Running => ENABLED HubWelcome))

\* C28 witness: before any event was published, an observer whose queue was
\* filled by a pong while the hub was registering it has been evicted.
C28_Witness ==
    \E c \in ClientIds :
        /\ hpc = "select"
        /\ c \notin Clients
        /\ closedBy[c] = <<"evict">>
        /\ Send[c] = <<Pong>>
        /\ Broadcast = <<>>
        /\ \A l \in JobIds : pc[l] \in {"none", "start", "acquire", "http"}
        /\ ticks = 0

\* C29: no send is attempted on an observer's outbound queue that has been
\* closed: the pong send of handleClientMessage runs only while the queue of
\* its observer is open, and the hub sends only to open queues.
C29_NoSendOnClosedQueue ==
    [][/\ \A c \in ClientIds : handleClientMessage(c) => ~SendClosed(c)
       /\ \A c \in ClientIds : HubBroadcastTo(c) => ~SendClosed(c)
       /\ HubWelcome => ~SendClosed(hcur)]_vars

\* no startup scan, create call or delete call is under way
Quiescent ==
    /\ scanPc \in {"done", "failed"}
    /\ createPending = {}
    /\ \A r \in RequestIds : creq[r].pc \in {"idle", "done"}
    /\ \A m \in MonitorIds : delPc[m] = "idle"

\* C30: once the startup scan has ended and while no create or delete call
\* is under way, every monitor id that has a job in the registry is the id
\* of a monitor in the store.
C30_RegistryOfStoredMonitors ==
    Quiescent => \A m \in MonitorIds : activeJobs[m] # NoJob => monitors[m].exists

\* C31: once the startup scan has ended and while no create or delete call
\* is under way, every stored monitor flagged active has a job in the
\* registry.
C31_ActiveMonitorsHaveJobs ==
    Quiescent => \A m \in MonitorIds :
                     (monitors[m].exists /\ monitors[m].is_active)
                         => activeJobs[m] # NoJob

\* the started loops of monitor m whose stop channel is open
OpenLoops(m) == {l \in LoopsOf(m) : ~stopClosed[l]}

\* C32: for each monitor id at most one started loop has an open stop
\* channel; the registry has an entry for the id exactly when there is such
\* a loop, and the entry is that loop's channel, so that no closed channel
\* is in the registry.
C32_RegistryIsTheOpenLoop ==
    \A m \in MonitorIds :
        /\ Cardinality(OpenLoops(m)) <= 1
        /\ activeJobs[m] # NoJob <=> OpenLoops(m) # {}
        /\ activeJobs[m] # NoJob => OpenLoops(m) = {activeJobs[m]}

\* C32 witness: a monitor's job was replaced; its first loop has a closed
\* stop channel and the registry holds the open channel of the second.
C32_Witness ==
    \E m \in MonitorIds : \E l1 \in LoopsOf(m) : \E l2 \in LoopsOf(m) :
        /\ l1 # l2
        /\ stopClosed[l1]
        /\ ~stopClosed[l2]
        /\ activeJobs[m] = l2
        /\ pc[l2] # "start"

\* C33: a probe that waits for a slot of the limiter gets one, and a probe
\* that holds a slot ends and gives it back; when every slot is held and the
\* hub's inbound queue is full, the hub can take a step.
C33_ProbeCompletes ==
    /\ \A l \in JobIds : (pc[l] = "acquire") ~> (pc[l] = "http")
    /\ \A l \in JobIds : (pc[l] \in HoldsSlot) ~> (pc[l] = "select")
    /\ []((semaphore = maxConcurrent /\ ~BroadcastReady) => ENABLED HubFor(1))

\* C33 witness: every slot is held by a loop that waits at its send to the
\* full inbound queue, and another loop, back from its first probe, waits for
\* a slot.
C33_Witness ==
    \E l1 \in JobIds : \E l2 \in JobIds :
        /\ pc[l1] = "broadcast"
        /\ pc[l2] = "acquire"
        /\ semaphore = maxConcurrent
        /\ ~BroadcastReady
        /\ ticks = 1

\* the hub has not yet dealt with the welcome message of observer c
WelcomeOwed(c) ==
    \/ rpc[c] \in {"none", "register"}
    \/ hpc = "welcome" /\ hcur = c

\* C34: the first event enqueued to an observer's outbound queue is its
\* connection_established event: as long as the hub has not dealt with the
\* observer's welcome message, the only change of the observer's queue is
\* the enqueue of that message to the empty queue.
C34_WelcomeFirst ==
    [][\A c \in ClientIds :
          (WelcomeOwed(c) /\ Send'[c] # Send[c])
              => (Send[c] = <<>> /\ Send'[c] = <<ConnectionEstablished>>)]_vars

\* no probe of monitor m is under way
NoProbeOf(m) == \A l \in LoopsOf(m) : pc[l] \notin InCheckEndpoint

\* the Metric of monitor m appended last
LastMetricOf(m) ==
    metrics[CHOOSE i \in MetricsOf(metrics, m) :
                \A j \in MetricsOf(metrics, m) : j <= i]

\* C35: with a store whose writes succeed, whenever no probe of a stored
\* monitor is under way and a Metric of it exists, the monitor's cached
\* status is the status of the Metric appended last for it.
C35_CachedStatusIsLastMetric ==
    \A m \in MonitorIds :
        (monitors[m].exists /\ NoProbeOf(m) /\ MetricsOf(metrics, m) # {})
            => monitors[m].current_status = LastMetricOf(m).status

\* the stored monitors with URL u
StoredWithUrl(u) == {m \in MonitorIds : monitors[m].exists /\ monitors[m].url = u}

\* the create requests for URL u that were answered 201 or are about to be
Succeeded(u) ==
    {r \in RequestIds : /\ creq[r].url = u
                        /\ \/ creq[r].pc = "start"
                           \/ creq[r].pc = "done" /\ creq[r].code = StatusCreated}

\* C36: of the CreateMonitor calls for one URL at most one succeeds, and at
\* most one monitor with that URL is stored.
C36_OneMonitorPerUrl ==
    \A u \in Urls :
        /\ Cardinality(StoredWithUrl(u)) <= 1
        /\ Cardinality(Succeeded(u)) <= 1

\* the uptime a loop computes and publishes
C37_Step ==
    \A l \in JobIds :
        /\ (pc[l] = "uptime" /\ pc'[l] = "broadcast")
              => /\ \E findOk \in BOOLEAN : \E cut \in 0..MaxCut :
                        upt'[l] = calculateUptimePercentage(metrics, jobMon[l],
                                                            now, findOk, cut)
                 /\ monitors' = monitors
        /\ (pc[l] = "broadcast" /\ pc'[l] = "select")
              => /\ Published.uptime_percentage = upt[l]
                 /\ Published.monitor_id = jobMon[l]
                 /\ monitors' = monitors

\* C37: the stored uptime_percentage of every stored monitor is the value
\* of its creation, 100, whatever probes have been recorded, and the uptime
\* of an update event is the one recordMetric computed from the Metric log
\* for that probe.
C37_StoredUptimeNeverWritten ==
    /\ [](\A m \in MonitorIds :
             monitors[m].exists
                 => monitors[m].uptime_percentage = <<CreationUptimePercentage, 1>>)
    /\ [][C37_Step]_vars

\* C37 witness: a probe of a stored monitor was recorded, the cached status
\* was written, and an event that carries an uptime other than 100 is on
\* its way, while the stored uptime is 100.
C37_Witness ==
    \E m \in MonitorIds :
        /\ monitors[m].exists
        /\ monitors[m].current_status = "down"
        /\ monitors[m].uptime_percentage = <<CreationUptimePercentage, 1>>
        /\ \E i \in 1..Len(Broadcast) :
              /\ Broadcast[i].monitor_id = m
              /\ Broadcast[i].uptime_percentage # <<CreationUptimePercentage, 1>>
              /\ Broadcast[i].uptime_percentage # <<0, 1>>

\* the status fields of a sequence of events, Metrics or outcomes
StatusesOf(q) == [i \in 1..Len(q) |-> q[i].status]

\* the update events of a queue
UpdatesIn(q) == SelectSeq(q, LAMBDA e : e.type = "metric_update")

\* the event the hub has dequeued and not yet offered to observer c
InHand(c) == IF hpc = "broadcast" /\ c \in btodo THEN <<hmsg>> ELSE <<>>

\* the outcome a loop has inserted as a Metric and not yet published
InFlight ==
    IF \E l \in JobIds : pc[l] \in {"update", "uptime", "broadcast"}
        THEN <<res[CHOOSE l \in JobIds : pc[l] \in {"update", "uptime", "broadcast"}]>>
        ELSE <<>>

\* what is on its way to observer c, oldest first
Pipeline(c) ==
    StatusesOf(UpdatesIn(Send[c]) \o InHand(c) \o Broadcast) \o StatusesOf(InFlight)

IsSuffix(a, b) ==
    /\ Len(a) <= Len(b)
    /\ SubSeq(b, Len(b) - Len(a) + 1, Len(b)) = a

\* C38: for a registered observer, the update events in its outbound queue,
\* then the event the hub holds for it, then the events of the hub's inbound
\* queue, then the outcome being published are, in this order, the last
\* Metrics of the log, each once: events reach the observer's queue in the
\* order the hub dequeued them, none twice, and leave it to the transport
\* oldest first.
C38_EventsInHubOrder ==
    \A c \in Clients : IsSuffix(Pipeline(c), StatusesOf(metrics))

\* C38 witness: a registered observer's queue holds the events of two
\* probes with different outcomes, waiting for its outbound pump.
C38_Witness ==
    \E c \in Clients :
        /\ wpc[c] = "write"
        /\ Len(Send[c]) = OrderCap
        /\ UpdatesIn(Send[c]) = Send[c]
        /\ Send[c][1].status # Send[c][2].status
        /\ Len(metrics) = 2

\* C39: once an observer has been removed from the observer set and its
\* queue closed, both of its pumps return.
C39_PumpsTerminate ==
    \A c \in ClientIds :
        (c \notin Clients /\ SendClosed(c)) ~> (rpc[c] = "done" /\ wpc[c] = "done")

\* the checkEndpoint invocations past their acquire and before their return
Holders == {l \in JobIds : pc[l] \in HoldsSlot}

\* the steps that change the number of held slots
C40_Step ==
    /\ semaphore' # semaphore
          => \/ /\ semaphore' = semaphore + 1
                /\ \E l \in JobIds : /\ pc[l] = "acquire" /\ pc'[l] = "http"
                                      /\ Holders' = Holders \cup {l}
             \/ /\ semaphore' = semaphore - 1
                /\ \E l \in Holders : /\ pc'[l] = "select"
                                      /\ Holders' = Holders \ {l}
    /\ Holders' # Holders => semaphore' # semaphore

\* C40: the number of held slots is the number of checkEndpoint invocations
\* between their acquire and their return; a slot is taken only by an
\* invocation that enters, and given back only by a holder that returns,
\* one slot each, whatever the outcome of the request.
C40_SlotsMatchInvocations ==
    /\ [](semaphore = Cardinality(Holders))
    /\ [][C40_Step]_vars

\* C40 witness: an invocation whose request could not be built is at the end
\* of recordMetric and still holds the only slot that is held.
C40_Witness ==
    \E l \in JobIds :
        /\ pc[l] = "broadcast"
        /\ res[l] = Classify(BuildError)
        /\ ins[l] = Len(metrics)
        /\ Holders = {l}
        /\ semaphore = 1

====
